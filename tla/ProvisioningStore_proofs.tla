---------------------- MODULE ProvisioningStore_proofs ----------------------
(* Proofs about what Provisioning keeps in NVS and makes of it: when the     *)
(* defaults are written, what a GATT write leaves and what a read answers.   *)
EXTENDS Provisioning_proofs

-----------------------------------------------------------------------------
(* What the steps of each task leave alone, unless the chip resets.          *)

Reading == {"size", "alloc", "get", "free", "null"}

LEMMA TaskFacts ==
    ASSUME TypeOK
    PROVE  /\ "main" \in Tasks /\ "host" \in Tasks /\ Tasks = {"main", "host"}
           /\ \A t \in Tasks : /\ task[t] \in [pc : PCs, i : Vars, sz : Nat, live : BOOLEAN]
                               /\ task[t].i \in Vars /\ task[t].sz \in Nat
                               /\ ram[task[t].i] \in Pointers
BY DEF TypeOK, Tasks

\* Where a task is after one turn of its loop.
LEMMA LoopTurns ==
    ASSUME TypeOK, NEW t \in Tasks, NEW again, NEW exit, Loop(t, again, exit)
    PROVE  /\ \/ /\ task[t].i < NumVars /\ task'[t].pc = again
                 /\ task'[t].i = task[t].i + 1 /\ task'[t].live = task[t].live
              \/ task[t].i = NumVars /\ task'[t].pc = exit /\ task'[t].i = 1
           /\ \A u \in Tasks \ {t} : task'[u] = task[u]
<1>1. task[t].i < NumVars \/ task[t].i = NumVars
  BY TaskFacts, TableAssumption DEF Vars
<1>2. CASE task[t].i < NumVars
  <2>1. task' = [task EXCEPT ![t] = [pc |-> again, i |-> task[t].i + 1, sz |-> 0,
                                     live |-> task[t].live]]
    BY <1>2 DEF Loop
  <2> QED  BY <1>2, <2>1 DEF TypeOK
<1>3. CASE task[t].i = NumVars
  <2>1. task' = [task EXCEPT ![t] = [pc |-> exit, i |-> 1, sz |-> 0, live |-> FALSE]]
    <3>1. ~(task[t].i < NumVars)
      BY <1>3, TableAssumption
    <3> QED  BY <3>1 DEF Loop
  <2> QED  BY <1>3, <2>1 DEF TypeOK
<1> QED  BY <1>1, <1>2, <1>3

LEMMA ReadVariablesMoves ==
    ASSUME TypeOK, NEW t \in Tasks, ReadVariables(t), ~Reboot
    PROVE  /\ task[t].pc \in Reading \cup {"open"}
           /\ \A u \in Tasks \ {t} : task'[u] = task[u]
           /\ UNCHANGED <<nvs, nvsReady, req, gapName, adv, repl, acked, fresh>>
           /\ idLoss => idLoss'
           /\ \A v \in Vars \ {task[t].i} : ram'[v] = ram[v]
<1> USE DEF flash, radio, history, At, Reading
<1>1. ReadOpen(t) \/ ReadSize(t) \/ ReadAlloc(t) \/ ReadGet(t) \/ ReadFree(t) \/ ReadNull(t)
  BY SMTT(30) DEF ReadVariables
<1>2. task[t].pc \in Reading \cup {"open"}
  BY <1>1 DEF ReadOpen, ReadSize, ReadAlloc, ReadGet, ReadFree, ReadNull
<1>3. \A u \in Tasks \ {t} : task'[u] = task[u]
  <2>1. \E r : task' = [task EXCEPT ![t] = r]
    <3>1. ReadOpen(t) => \E r : task' = [task EXCEPT ![t] = r]
      BY DEF ReadOpen
    <3>2. \A p : Goto(t, p) => \E r : task' = [task EXCEPT ![t] = r]
      BY DEF Goto
    <3>3. \A again, exit : Loop(t, again, exit) => \E r : task' = [task EXCEPT ![t] = r]
      BY DEF Loop
    <3>4. CASE ReadSize(t)
      BY <3>3, <3>4 DEF ReadSize
    <3>5. CASE ReadAlloc(t)
      BY <3>2, <3>3, <3>5 DEF ReadAlloc
    <3>6. CASE ReadGet(t)
      BY <3>2, <3>3, <3>6 DEF ReadGet, Outcome
    <3>7. CASE ReadFree(t)
      BY <3>2, <3>7 DEF ReadFree, Outcome
    <3>8. CASE ReadNull(t)
      BY <3>3, <3>8 DEF ReadNull
    <3> QED  BY <1>1, <3>1, <3>4, <3>5, <3>6, <3>7, <3>8
  <2>2. ASSUME NEW r, task' = [task EXCEPT ![t] = r] PROVE \A u \in Tasks \ {t} : task'[u] = task[u]
    BY <2>2 DEF TypeOK
  <2> QED  BY <2>1, <2>2
<1>4. UNCHANGED <<nvs, nvsReady, req, gapName, adv, repl, acked, fresh>> /\ (idLoss => idLoss')
  <2>1. UNCHANGED <<nvs, nvsReady, req, gapName, adv, repl, acked, fresh>>
    BY <1>1 DEF ReadOpen, ReadSize, ReadAlloc, ReadGet, ReadFree, ReadNull, Outcome
  <2>2. CASE ReadOpen(t) \/ ReadAlloc(t)
    <3>1. \/ idLoss' = idLoss
          \/ idLoss' = (idLoss \/ ~nvsReady)
          \/ idLoss' = (idLoss \/ task[t].i = IdVar)
      BY <2>2, Zenon DEF ReadOpen, ReadAlloc
    <3>2. idLoss => idLoss'
      BY <3>1, Zenon
    <3> QED  BY <2>1, <3>2
  <2>3. CASE ReadSize(t) \/ ReadNull(t) \/ ReadFree(t)
    BY <2>3 DEF ReadSize, ReadNull, ReadFree, Outcome
  <2>4. CASE ReadGet(t)
    <3>1. idLoss' = idLoss \/ idLoss' = (idLoss \/ task[t].i = IdVar)
      BY <2>4, Zenon DEF ReadGet, Outcome
    <3>2. idLoss => idLoss'
      BY <3>1, Zenon
    <3> QED  BY <2>1, <3>2
  <2> QED  BY <1>1, <2>1, <2>2, <2>3, <2>4, ZenonT(90)
<1>5. \A v \in Vars \ {task[t].i} : ram'[v] = ram[v]
  <2>1. ram' = ram \/ \E p : ram' = [ram EXCEPT ![task[t].i] = p]
    BY <1>1 DEF ReadOpen, ReadSize, ReadAlloc, ReadGet, ReadFree, ReadNull, Outcome
  <2>2. CASE ram' = ram
    BY <2>2
  <2>3. ASSUME NEW p, ram' = [ram EXCEPT ![task[t].i] = p] PROVE \A v \in Vars \ {task[t].i} : ram'[v] = ram[v]
    BY <2>3 DEF TypeOK
  <2> QED  BY <2>1, <2>2, <2>3, ZenonT(90)
<1> QED  BY <1>2, <1>3, <1>4, <1>5

LEMMA HostReadMoves ==
    ASSUME TypeOK, ReadVariables("host"), ~Reboot
    PROVE  /\ task["host"].pc \in Reading \cup {"open"}
           /\ task'["main"] = task["main"]
           /\ nvs' = nvs /\ nvsReady' = nvsReady /\ req' = req /\ gapName' = gapName /\ adv' = adv
           /\ repl' = repl /\ acked' = acked /\ fresh' = fresh
           /\ \A v \in Vars \ {task["host"].i} : ram'[v] = ram[v]
<1>1. "host" \in Tasks /\ "main" \in Tasks \ {"host"}
  BY TaskFacts
<1> QED  BY <1>1, ReadVariablesMoves

LEMMA MainMoves ==
    ASSUME TypeOK, MainStep, ~Reboot
    PROVE  /\ ~Booted /\ task'["host"] = task["host"]
           /\ UNCHANGED <<nvsReady, req, gapName, adv, repl, acked, fresh>>
           /\ nvs' = nvs \/ At("main", "defaults")
           /\ idLoss => idLoss'
<1>0. "main" \in Tasks /\ "host" \in Tasks
  BY TaskFacts
<1>1. CASE ReadVariables("main")
  BY <1>0, <1>1, ReadVariablesMoves DEF Booted, At, Reading, Tasks
<1>2. CASE MainBoot \/ MainCheck \/ MainDefault
  <2>1. task'["host"] = task["host"]
    BY <1>0, <1>2, GotoMoves, LoopMoves DEF MainBoot, MainCheck, MainDefault, TypeOK, Tasks
  <2> QED  BY <1>2, <2>1 DEF MainBoot, MainCheck, MainDefault, Booted, At, flash, radio, history
<1> QED  BY <1>1, <1>2 DEF MainStep

\* The host task, in an event or in a callback.
HostStep == OnSync \/ HostEvent \/ Callback

LEMMA HostMoves ==
    ASSUME TypeOK, HostStep, ~Reboot
    PROVE  /\ task'["main"] = task["main"]
           /\ UNCHANGED <<nvsReady, repl>>
           /\ nvs' = nvs \/ Store
           /\ idLoss => idLoss'
<1> USE DEF flash, radio, history
<1>0. "main" \in Tasks /\ "host" \in Tasks /\ "main" # "host"
  BY TaskFacts
<1>1. CASE ReadVariables("host")
  BY <1>0, <1>1, ReadVariablesMoves
<1>2. CASE OnSync \/ HostEvent
  BY <1>0, <1>2, GotoMoves DEF OnSync, HostEvent, GapEvent, GattAccess, Advertise, TypeOK
<1>3. CASE FillFree
  BY <1>0, <1>3, GotoMoves, LoopMoves, SMTT(30) DEF FillFree, Outcome
<1>4. CASE FillDup \/ Mark \/ Store
  BY <1>0, <1>4, LoopMoves DEF FillDup, Mark, Store, Outcome, TypeOK
<1>5. CASE Respond \/ LogTable \/ AdvName \/ AdvData
  BY <1>0, <1>5, GotoMoves DEF Respond, LogTable, AdvName, AdvData, Advertise, Outcome, TypeOK
<1> QED  BY <1>1, <1>2, <1>3, <1>4, <1>5 DEF HostStep, Callback

LEMMA ConsoleMoves ==
    ASSUME TypeOK, Console, ~Reboot
    PROVE  /\ Booted \/ repl = "erasing"
           /\ UNCHANGED <<ram, req, gapName, adv, misuse, idLoss>>
           /\ \A t \in Tasks : /\ task'[t].pc = task[t].pc /\ task'[t].i = task[t].i
                               /\ task'[t].sz = task[t].sz
           /\ task' = task \/ EraseNvs
           /\ repl' = "erasing" => EraseNvs
<1> USE DEF flash, radio, history
<1>2. (\E v \in Vars : DelNvs(v) \/ \E s \in SetValues : SetNvs(v, s)) \/ EraseNvs \/ EraseInit
  BY DEF Console, PrintMRD
<1>3. task' = task \/ EraseNvs
  BY <1>2 DEF DelNvs, SetNvs, EraseInit
<1>4. \A t \in Tasks : /\ task'[t].pc = task[t].pc /\ task'[t].i = task[t].i
                       /\ task'[t].sz = task[t].sz
  BY <1>3, TaskFacts DEF EraseNvs
<1>5. repl' = "erasing" => EraseNvs
  BY <1>2 DEF DelNvs, SetNvs, EraseInit
<1> QED  BY <1>2, <1>3, <1>4, <1>5 DEF DelNvs, SetNvs, EraseNvs, EraseInit

\* Every step is a reset or one of a task.
LEMMA Steps ==
    ASSUME Next
    PROVE  Reboot \/ (Step /\ ~Reboot /\ (MainStep \/ HostStep \/ Console))
BY DEF Next, PowerCycle, Step, HostStep

LEMMA RebootMoves ==
    ASSUME Reboot
    PROVE  /\ task'["main"].pc = "boot" /\ task'["host"].pc = "presync"
           /\ req' = NoReq /\ repl' = "idle" /\ ~idLoss' /\ ~fresh'
           /\ \A v \in Vars : ram'[v] = NullPtr
           /\ nvs' = nvs \/ repl = "erasing"
           /\ acked' = IF At("host", "store") THEN <<>> ELSE acked
BY DEF Reboot, BootTask, Tasks

-----------------------------------------------------------------------------
(* The test of app_main: whoever loses the ID of the table says so.          *)

\* The console starts after the boot, so that NVS stays up during the boot.
ConsoleWaits == repl = "erasing" => Booted

\* app_main reads through a handle, unless nvs_open has failed.
HandleOpen == task["main"].pc \in Reading => idLoss \/ Usable("main")

\* What readVariablesFromNvs releases is a value it failed to read.
FailureNoted == \A t \in Tasks : task[t].pc \in {"free", "null"} /\ task[t].i = IdVar => idLoss

IdLoaded ==
    nvs[IdVar] # Absent /\ ~idLoss
      /\ (At("main", "check") \/ (At("main", "get") /\ task["main"].i = IdVar))
    => ram[IdVar].own # "null"

IdInv == ConsoleWaits /\ HandleOpen /\ FailureNoted /\ IdLoaded

\* A read that loses the value of the ID notes it.
LEMMA ReadVariablesNotes ==
    ASSUME TypeOK, FailureNoted, NEW t \in Tasks, ReadVariables(t), ~Reboot
    PROVE  /\ FailureNoted'
           /\ ram'[IdVar].own = "null" => ram[IdVar].own = "null" \/ idLoss'
<1> DEFINE v == task[t].i
<1>0. /\ v \in Vars /\ IdVar \in Vars /\ ram[v] \in Pointers
      /\ Return(t) \notin {"free", "null"}
      /\ \A u \in Tasks \ {t} : task'[u] = task[u]
      /\ idLoss => idLoss'
  BY TaskFacts, VarsFacts, ReadVariablesMoves DEF Return
<1>1. CASE ReadOpen(t) \/ ReadSize(t)
  <2>1. ram' = ram /\ task'[t].pc \notin {"free", "null"}
    BY <1>0, <1>1, LoopTurns DEF ReadOpen, ReadSize, TypeOK
  <2> QED  BY <1>0, <2>1 DEF FailureNoted
<1>2. CASE ReadAlloc(t)
  <2>1. task'[t].pc \notin {"free", "null"}
    BY <1>0, <1>2, LoopTurns, GotoMoves DEF ReadAlloc
  <2>2. \/ ram' = [ram EXCEPT ![v] = NewBuffer(task[t].sz)]
        \/ ram' = [ram EXCEPT ![v] = NullPtr] /\ (v = IdVar => idLoss')
    BY <1>2, Zenon DEF ReadAlloc
  <2>3. ram'[IdVar].own = "null" => ram[IdVar].own = "null" \/ idLoss'
    BY <1>0, <2>2, SMTT(30) DEF NewBuffer, Heap, TypeOK
  <2> QED  BY <1>0, <2>1, <2>3 DEF FailureNoted
<1>3. CASE ReadGet(t)
  <2>1. CASE Loop(t, "size", Return(t))
            /\ ram' = IF ram[v].own = "heap" THEN [ram EXCEPT ![v].val = nvs[v]] ELSE ram
    <3>1. task'[t].pc \notin {"free", "null"}
      BY <1>0, <2>1, LoopTurns
    <3>2. ram'[IdVar].own = ram[IdVar].own
      BY <1>0, <2>1 DEF TypeOK, Pointers
    <3> QED  BY <1>0, <3>1, <3>2 DEF FailureNoted
  <2>2. CASE Goto(t, "free") /\ idLoss' = (idLoss \/ v = IdVar) /\ ram' = ram
    <3>1. task'[t].i = v
      BY <1>0, <2>2, GotoMoves
    <3> QED  BY <1>0, <2>2, <3>1 DEF FailureNoted
  <2> QED  BY <1>3, <2>1, <2>2 DEF ReadGet, Outcome
<1>4. CASE ReadFree(t)
  <2>1. task[t].pc = "free" /\ ram' = [ram EXCEPT ![v] = Released(ram[v])] /\ Goto(t, "null")
    BY <1>4 DEF ReadFree, Outcome, At
  <2>2. task'[t].i = v
    BY <1>0, <2>1, GotoMoves
  <2>3. ram'[IdVar].own = "null" => ram[IdVar].own = "null"
    BY <1>0, <2>1 DEF Released, TypeOK, Pointers
  <2> QED  BY <1>0, <2>1, <2>2, <2>3 DEF FailureNoted
<1>5. CASE ReadNull(t)
  <2>1. task[t].pc = "null" /\ ram' = [ram EXCEPT ![v] = NullPtr]
    BY <1>5 DEF ReadNull, At
  <2>2. task'[t].pc \notin {"free", "null"}
    BY <1>0, <1>5, LoopTurns DEF ReadNull
  <2>3. v # IdVar => ram'[IdVar] = ram[IdVar]
    BY <2>1 DEF TypeOK
  <2> QED  BY <1>0, <2>1, <2>2, <2>3 DEF FailureNoted
<1> QED  BY <1>1, <1>2, <1>3, <1>4, <1>5 DEF ReadVariables

\* app_main reads the table: at the end of the loop the ID is in RAM, or NVS
\* holds none, or the failure is noted.
LEMMA MainReadsId ==
    ASSUME TypeOK, IdInv, ReadVariables("main"), ~Reboot
    PROVE  IdInv'
<1> DEFINE v == task["main"].i
<1>0. /\ "main" \in Tasks /\ v \in Vars /\ IdVar \in Vars /\ Return("main") = "check"
      /\ ram[v] \in Pointers
      /\ UNCHANGED <<nvs, nvsReady, repl>> /\ (idLoss => idLoss')
      /\ ~Booted
  BY TaskFacts, VarsFacts, ReadVariablesMoves DEF Return, Booted, At, Reading
<1>1. FailureNoted'
  BY <1>0, ReadVariablesNotes DEF IdInv
<1>2. ConsoleWaits'
  BY <1>0 DEF IdInv, ConsoleWaits
<1>3. CASE ReadOpen("main")
  <2>1. nvsReady => task'["main"].live
    BY <1>0, <1>3 DEF ReadOpen, TypeOK
  <2>2. ~nvsReady => idLoss'
    BY <1>3 DEF ReadOpen
  <2>3. HandleOpen'
    BY <1>0, <2>1, <2>2 DEF HandleOpen, Usable
  <2>4. nvsReady => task'["main"].pc = "size"
    BY <1>0, <1>3 DEF ReadOpen, TypeOK
  <2>5. IdLoaded'
    BY <2>2, <2>4 DEF IdLoaded, At
  <2> QED  BY <1>1, <1>2, <2>3, <2>5 DEF IdInv
<1>4. CASE ~ReadOpen("main")
  <2>1. idLoss \/ Usable("main")
    BY <1>4 DEF ReadVariables, ReadSize, ReadAlloc, ReadGet, ReadFree, ReadNull, At,
                IdInv, HandleOpen, Reading
  <2>2. task'["main"].pc \in Reading => task'["main"].live = task["main"].live
    <3>1. \A p : Goto("main", p) => task'["main"].live = task["main"].live
      BY <1>0 DEF Goto, TypeOK
    <3>2. Loop("main", "size", "check") /\ task'["main"].pc \in Reading
            => task'["main"].live = task["main"].live
      BY <1>0, LoopTurns DEF Reading
    <3>3. ReadSize("main") => task'["main"].live = task["main"].live \/ Loop("main", "size", "check")
      BY <1>0 DEF ReadSize, TypeOK
    <3> QED  BY <1>0, <1>4, <3>1, <3>2, <3>3
             DEF ReadVariables, ReadAlloc, ReadGet, ReadFree, ReadNull, Outcome
  <2>3. HandleOpen'
    BY <1>0, <2>1, <2>2 DEF HandleOpen, Usable
  <2>4. IdLoaded'
    <3> SUFFICES ASSUME nvs[IdVar] # Absent, ~idLoss',
                        At("main", "check")' \/ (At("main", "get")' /\ (task["main"].i)' = IdVar)
                 PROVE  ram'[IdVar].own # "null"
      BY <1>0 DEF IdLoaded
    <3>1. ~idLoss /\ Usable("main")
      BY <1>0, <2>1
    <3>2. /\ \A again : Loop("main", again, "check") /\ task'["main"].pc = "check" => again = "check" \/ v = IdVar
          /\ \A p : Goto("main", p) => task'["main"].pc = p /\ task'["main"].i = v
          /\ Loop("main", "size", "check") => task'["main"].pc \in {"size", "check"}
      BY <1>0, LoopTurns, GotoMoves DEF IdVar
    <3>3. CASE ReadSize("main")
      <4>1. CASE nvs[v] # Absent
        <5>1. task'["main"].pc = "alloc"
          BY <1>0, <3>1, <3>3, <4>1 DEF ReadSize, TypeOK
        <5> QED  BY <5>1 DEF At
      <4>2. CASE nvs[v] = Absent
        <5>1. Loop("main", "size", "check")
          BY <1>0, <3>3, <4>2 DEF ReadSize
        <5> QED  BY <3>2, <4>2, <5>1 DEF At
      <4> QED  BY <4>1, <4>2
    <3>4. CASE ReadAlloc("main")
      <4>1. CASE Goto("main", "get") /\ ram' = [ram EXCEPT ![v] = NewBuffer(task["main"].sz)]
        <5>1. v = IdVar
          BY <3>2, <4>1 DEF At
        <5> QED  BY <1>0, <4>1, <5>1 DEF TypeOK, NewBuffer, Heap
      <4>2. CASE Loop("main", "size", "check") /\ idLoss' = (idLoss \/ v = IdVar)
        BY <3>2, <4>2 DEF At
      <4> QED  BY <1>0, <3>4, <4>1, <4>2 DEF ReadAlloc
    <3>5. CASE ReadGet("main")
      <4>1. CASE Goto("main", "free")
        BY <3>2, <4>1 DEF At
      <4>2. CASE Loop("main", "size", "check")
                /\ ram' = IF ram[v].own = "heap" THEN [ram EXCEPT ![v].val = nvs[v]] ELSE ram
        <5>1. At("main", "get") /\ v = IdVar
          BY <3>2, <3>5, <4>2 DEF At, ReadGet
        <5>2. ram[IdVar].own # "null"
          BY <3>1, <5>1 DEF IdInv, IdLoaded
        <5> QED  BY <1>0, <4>2, <5>1, <5>2 DEF TypeOK, Pointers
      <4> QED  BY <1>0, <3>5, <4>1, <4>2 DEF ReadGet, Outcome
    <3>6. CASE ReadFree("main")
      BY <3>2, <3>6 DEF ReadFree, Outcome, At
    <3>7. CASE ReadNull("main")
      <4>1. v = IdVar /\ task["main"].pc = "null"
        BY <1>0, <3>2, <3>7 DEF ReadNull, At
      <4> QED  BY <1>0, <3>1, <4>1 DEF IdInv, FailureNoted
    <3> QED  BY <1>4, <3>3, <3>4, <3>5, <3>6, <3>7 DEF ReadVariables
  <2> QED  BY <1>1, <1>2, <2>3, <2>4 DEF IdInv
<1> QED  BY <1>3, <1>4

\* The rest of app_main: nothing there touches the table.
LEMMA MainKeepsId ==
    ASSUME TypeOK, IdInv, MainBoot \/ MainCheck \/ MainDefault, ~Reboot
    PROVE  IdInv'
<1>0. /\ "main" \in Tasks /\ "host" \in Tasks /\ "main" # "host"
      /\ UNCHANGED <<nvsReady, ram, repl, idLoss>> /\ task'["host"] = task["host"]
      /\ task["main"].pc \in {"boot", "check", "defaults"} /\ ~Booted
  BY TaskFacts, MainMoves
  DEF MainStep, MainBoot, MainCheck, MainDefault, flash, radio, history, At, Booted
<1>1. task'["main"].pc \in {"open", "defaults", "done"}
  BY <1>0, LoopMoves DEF MainBoot, MainCheck, MainDefault, Goto, TypeOK
<1>2. FailureNoted'
  BY <1>0, <1>1 DEF IdInv, FailureNoted, Tasks
<1> QED  BY <1>0, <1>1, <1>2 DEF IdInv, ConsoleWaits, HandleOpen, Reading, IdLoaded, At

\* The host task puts an ID into NVS only from RAM, and notes when it loses the
\* one in RAM.
LEMMA HostKeepsId ==
    ASSUME TypeOK, IdInv, HostStep, ~Reboot
    PROVE  IdInv'
<1>0. /\ "host" \in Tasks /\ "main" # "host" /\ IdVar \in Vars /\ task["host"].i \in Vars
      /\ task'["main"] = task["main"] /\ UNCHANGED <<nvsReady, repl>> /\ (idLoss => idLoss')
      /\ ConsoleWaits /\ HandleOpen /\ FailureNoted /\ IdLoaded
  BY TaskFacts, VarsFacts, HostMoves DEF IdInv
<1>1. ConsoleWaits' /\ HandleOpen'
  BY <1>0 DEF ConsoleWaits, HandleOpen, Usable, Booted, At
<1>2. FailureNoted' /\ (ram'[IdVar].own = "null" => ram[IdVar].own = "null" \/ idLoss')
  <2>1. CASE ReadVariables("host")
    BY <1>0, <2>1, ReadVariablesNotes
  <2>2. CASE ~ReadVariables("host")
    <3>1. task'["host"].pc \notin {"free", "null"}
      <4>1. CASE OnSync \/ HostEvent
        BY <1>0, <4>1, GotoMoves DEF OnSync, HostEvent, GapEvent, GattAccess, Advertise, TypeOK
      <4>2. CASE FillFree
        BY <1>0, <4>2, LoopMoves, GotoMoves DEF FillFree, Outcome
      <4>3. CASE FillDup \/ Store
        BY <1>0, <4>3, LoopMoves DEF FillDup, Store, Outcome
      <4>4. CASE Respond \/ AdvName \/ AdvData
        BY <1>0, <4>4, GotoMoves DEF Respond, AdvName, AdvData, Outcome
      <4>5. CASE Mark \/ LogTable
        BY <1>0, <4>5 DEF Mark, LogTable, Advertise, Outcome, TypeOK
      <4> QED  BY <2>2, <4>1, <4>2, <4>3, <4>4, <4>5 DEF HostStep, Callback
    <3>2. FailureNoted'
      BY <1>0, <3>1 DEF FailureNoted, Tasks
    <3>3. CASE FillDup
      <4>1. PICK p : /\ ram' = [ram EXCEPT ![task["host"].i] = p]
                     /\ idLoss' = (idLoss \/ (task["host"].i = IdVar /\ p = NullPtr))
                     /\ p.own = "null" => p = NullPtr
        <5>1. PICK p \in StrDup(ram[task["host"].i], req.load[task["host"].i]) :
                     /\ ram' = [ram EXCEPT ![task["host"].i] = p]
                     /\ idLoss' = (idLoss \/ (task["host"].i = IdVar /\ p = NullPtr))
          BY <3>3, Zenon DEF FillDup
        <5>2. p.own = "null" => p = NullPtr
          BY DEF StrDup, Heap
        <5> QED  BY <5>1, <5>2
      <4>2. task["host"].i = IdVar /\ p = NullPtr => idLoss'
        BY <4>1, Zenon
      <4> QED  BY <1>0, <3>2, <4>1, <4>2 DEF TypeOK
    <3>4. CASE FillFree
      <4>1. \/ ram' = ram
            \/ ram' = [ram EXCEPT ![task["host"].i] = Released(ram[task["host"].i])]
        BY <3>4 DEF FillFree, Outcome
      <4>2. ram[task["host"].i].own # "null" => Released(ram[task["host"].i]).own # "null"
        BY <1>0, TaskFacts DEF Released, Pointers
      <4>3. ram'[IdVar].own = "null" => ram[IdVar].own = "null"
        BY <1>0, <4>1, <4>2, SMTT(30) DEF TypeOK
      <4> QED  BY <3>2, <4>3
    <3>5. CASE ~FillDup /\ ~FillFree
      <4>1. ram' = ram \/ \E p : ram' = [ram EXCEPT ![InitVar] = p]
        BY <2>2, <3>5
        DEF HostStep, OnSync, HostEvent, GapEvent, GattAccess, Callback, Respond, Mark, Store,
            LogTable, AdvName, AdvData, Outcome
      <4>2. InitVar # IdVar
        BY TableAssumption DEF InitVar, IdVar
      <4> QED  BY <1>0, <3>2, <4>1, <4>2 DEF TypeOK
    <3> QED  BY <3>3, <3>4, <3>5
  <2> QED  BY <2>1, <2>2
<1>3. nvs'[IdVar] # Absent => nvs[IdVar] # Absent \/ ram'[IdVar].own # "null"
  <2>1. CASE Store
    <3>1. /\ ram' = ram
          /\ \/ nvs' = nvs
             \/ /\ WrittenBack(task["host"].i)
                /\ nvs' = [nvs EXCEPT ![task["host"].i] = Seen(ram[task["host"].i])]
      BY <2>1 DEF Store, Outcome
    <3> QED  BY <1>0, <3>1 DEF WrittenBack, TypeOK
  <2> QED  BY <2>1, HostMoves
<1>4. IdLoaded'
  BY <1>0, <1>2, <1>3 DEF IdLoaded, At
<1> QED  BY <1>1, <1>2, <1>4 DEF IdInv

LEMMA NextIdInv ==
    ASSUME TypeOK, IdInv, [Next]_vars
    PROVE  IdInv'
<1>1. CASE UNCHANGED vars
  BY <1>1 DEF vars, IdInv, ConsoleWaits, HandleOpen, FailureNoted, IdLoaded, Usable, Booted, At
<1>2. CASE Reboot
  BY <1>2, RebootMoves DEF IdInv, ConsoleWaits, HandleOpen, FailureNoted, IdLoaded, At, Reading, Tasks
<1>3. CASE MainStep /\ ~Reboot
  BY <1>3, MainReadsId, MainKeepsId DEF MainStep
<1>4. CASE HostStep /\ ~Reboot
  BY <1>4, HostKeepsId
<1>5. CASE Console /\ ~Reboot
  <2>1. Booted /\ idLoss' = idLoss /\ ConsoleWaits'
    BY <1>5, ConsoleMoves, TaskFacts DEF IdInv, ConsoleWaits, EraseNvs, Booted, At
  <2>2. task'["main"].pc = "done" /\ FailureNoted'
    BY <1>5, <2>1, ConsoleMoves, TaskFacts DEF IdInv, FailureNoted, Booted, At
  <2> QED  BY <2>1, <2>2 DEF IdInv, HandleOpen, IdLoaded, Reading, At
<1> QED  BY <1>1, <1>2, <1>3, <1>4, <1>5, Steps

\* variablesAreEmpty judges by the ID alone, while the host task may be reading
\* the same table: whatever the payloads and the faults, unless this boot has
\* failed to load the ID that NVS holds, the defaults are never written over it
\* (main/myRemoteDevice.c:135-142, 163-173).
THEOREM AlwaysSoundTest == Spec => []EmptinessTestSound
<1>1. Init => IInv /\ IdInv
  BY InitIInv
  DEF Init, IdInv, ConsoleWaits, HandleOpen, FailureNoted, IdLoaded, BootTask, Reading, At, Tasks
<1>2. (IInv /\ IdInv) /\ [Next]_vars => (IInv /\ IdInv)'
  BY NextIInv, NextIdInv DEF IInv
<1>3. IInv /\ IdInv => EmptinessTestSound
  BY DEF IdInv, IdLoaded, EmptinessTestSound, VariablesAreEmpty
<1> QED  BY <1>1, <1>2, <1>3, PTL DEF Spec

-----------------------------------------------------------------------------
(* What a callback may store: never the contents of memory that nobody wrote. *)

\* What a buffer holds that malloc has just returned.
Uninit(v) == ram[v].own = "heap" /\ ram[v].val = Garbage

\* Only a buffer between malloc and the second nvs_get_str is without contents.
Filled == \A v \in Vars : Uninit(v) =>
              \E t \in Tasks : task[t].pc \in {"get", "free"} /\ task[t].i = v

\* A string literal is a string.
LiteralText == \A v \in Vars : ram[v].own = "rodata" => ram[v].val \in Strings

NvsClean == \A v \in Vars : nvs[v] # Garbage

\* Nothing but a callback that began after the boot could bring such contents
\* into NVS: the race of app_main with an early write left none there.
CleanStep == ~req.booted => \A v \in Vars : nvs'[v] = Garbage => nvs[v] = Garbage
CleanBoot == [][CleanStep]_vars

\* A host step that is none of readVariablesFromNvs leaves strings in RAM.
LEMMA HostWritesText ==
    ASSUME TypeOK, DupKey, HostStep, ~ReadVariables("host"), ~Reboot
    PROVE  /\ task["host"].pc \notin Reading \cup {"open"}
           /\ task'["host"].pc \notin Reading
           /\ \A v \in Vars : \/ ram'[v] = ram[v]
                              \/ ram'[v].own \in {"null", "freed"}
                              \/ ram'[v].own \in {"heap", "rodata"} /\ ram'[v].val \in Strings
<1> DEFINE w == task["host"].i
<1>0. /\ "host" \in Tasks /\ w \in Vars /\ InitVar \in Vars /\ ram[w] \in Pointers
      /\ TrueStr \in Strings /\ FalseStr \in Strings
  BY TaskFacts, VarsFacts, StringAssumption
<1>1. CASE OnSync \/ HostEvent
  BY <1>0, <1>1, GotoMoves, SMTT(30)
  DEF OnSync, HostEvent, GapEvent, GattAccess, Advertise, At, Reading, TypeOK
<1>2. CASE FillFree
  <2>1. \/ ram' = ram
        \/ ram' = [ram EXCEPT ![w] = Released(ram[w])]
    BY <1>2 DEF FillFree, Outcome
  <2>2. Released(ram[w]).own \in {"null", "freed"}
    BY <1>0 DEF Released, Pointers
  <2> QED  BY <1>0, <1>2, <2>1, <2>2, LoopMoves, GotoMoves, SMTT(90) DEF FillFree, Outcome, At, Reading, TypeOK
<1>3. CASE FillDup
  <2>1. PICK p \in StrDup(ram[w], req.load[w]) : ram' = [ram EXCEPT ![w] = p]
    BY <1>3 DEF FillDup
  <2>2. req.load[w] \in Strings
    BY <1>3, WrittenType DEF DupKey, FillDup
  <2>3. p.own = "null" \/ (p.own = "heap" /\ p.val \in Strings)
    BY <2>2 DEF StrDup, Heap, NullPtr
  <2> QED  BY <1>0, <1>3, <2>1, <2>3, LoopMoves, SMTT(30) DEF FillDup, At, Reading, TypeOK
<1>4. CASE Mark
  BY <1>0, <1>4 DEF Mark, At, Reading, Rodata, TypeOK
<1>5. CASE Store
  BY <1>0, <1>5, LoopMoves DEF Store, Outcome, At, Reading
<1>6. CASE Respond \/ AdvData
  BY <1>0, <1>6, GotoMoves DEF Respond, AdvData, Outcome, At, Reading
<1>7. CASE LogTable
  BY <1>0, <1>7 DEF LogTable, Advertise, Outcome, At, Reading, TypeOK
<1>8. CASE AdvName
  <2>1. ram' = [ram EXCEPT ![InitVar] = FlagOrDefault(ram[InitVar])] /\ Goto("host", "data")
    BY <1>8 DEF AdvName, Outcome
  <2>2. FlagOrDefault(ram[InitVar]) = ram[InitVar] \/ FlagOrDefault(ram[InitVar]) = Rodata(FalseStr)
    BY DEF FlagOrDefault
  <2> QED  BY <1>0, <1>8, <2>1, <2>2, GotoMoves DEF AdvName, At, Reading, Rodata, TypeOK
<1> QED  BY <1>1, <1>2, <1>3, <1>4, <1>5, <1>6, <1>7, <1>8 DEF HostStep, Callback

\* What a callback that began after the boot stores is a string of the table.
LEMMA StoresText ==
    ASSUME TypeOK, Owned, Filled, LiteralText, Store, req.booted, ~Reboot
    PROVE  \A v \in Vars : nvs'[v] = Garbage => nvs[v] = Garbage
<1> DEFINE w == task["host"].i
<1>0. w \in Vars /\ ram[w] \in Pointers /\ task["host"].pc = "store"
  BY TaskFacts DEF Store, At
<1>1. ram[w].own # "freed"
  BY <1>0, NothingDangles
<1>2. ~Uninit(w)
  <2>1. task["main"].pc = "done"
    BY DEF Owned, Exclusive, Booted, At
  <2> QED  BY <1>0, <2>1 DEF Filled, Tasks
<1>3. ram[w].own # "null" => Seen(ram[w]) # Garbage
  BY <1>0, <1>1, <1>2, StringAssumption DEF Seen, Uninit, LiteralText, Pointers
<1>4. nvs' = nvs \/ (ram[w].own # "null" /\ nvs' = [nvs EXCEPT ![w] = Seen(ram[w])])
  BY DEF Store, Outcome, WrittenBack
<1> QED  BY <1>0, <1>3, <1>4 DEF TypeOK

LEMMA SurvivorsClean == NvsClean => \A n \in Survivors : \A v \in Vars : n[v] # Garbage
BY StringAssumption DEF NvsClean, Survivors

\* Nothing but the race brings such contents into NVS.
LEMMA NvsStaysClean ==
    ASSUME IInv, Owned, Filled, LiteralText, NvsClean, [Next]_vars, req.booted
    PROVE  NvsClean'
<1> USE DEF IInv
<1>1. CASE UNCHANGED vars
  BY <1>1 DEF vars, NvsClean
<1>2. CASE Reboot
  BY <1>2, SurvivorsClean DEF Reboot, NvsClean
<1>3. CASE MainStep /\ ~Reboot
  BY <1>3, MainMoves DEF Owned, Exclusive
<1>4. CASE HostStep /\ ~Reboot
  BY <1>4, HostMoves, StoresText DEF NvsClean
<1>5. CASE Console /\ ~Reboot
  <2>1. ASSUME NEW w \in Vars, NEW x \in Strings \cup {Absent}, nvs' = [nvs EXCEPT ![w] = x]
        PROVE  NvsClean'
    BY <2>1, StringAssumption DEF NvsClean, TypeOK
  <2>2. CASE \E w \in Vars : DelNvs(w) \/ \E x \in SetValues : SetNvs(w, x)
    BY <2>1, <2>2, EnvironmentAssumption DEF DelNvs, SetNvs
  <2>3. CASE EraseNvs
    BY <2>3 DEF EraseNvs, NvsClean
  <2>4. CASE EraseInit
    BY <2>4, SurvivorsClean, StringAssumption DEF EraseInit, NvsClean
  <2> QED  BY <1>5, <2>2, <2>3, <2>4 DEF Console, PrintMRD
<1> QED  BY <1>1, <1>2, <1>3, <1>4, <1>5, Steps

LEMMA ReadVariablesFills ==
    ASSUME TypeOK, Filled, LiteralText, NvsClean, NEW t \in Tasks, ReadVariables(t), ~Reboot
    PROVE  Filled' /\ LiteralText'
<1> DEFINE v == task[t].i
<1>0. /\ v \in Vars /\ ram[v] \in Pointers
      /\ \A u \in Tasks \ {t} : task'[u] = task[u]
      /\ \A w \in Vars \ {v} : ram'[w] = ram[w]
  BY TaskFacts, ReadVariablesMoves
<1>1. ASSUME \/ ram'[v] = ram[v] /\ (task[t].pc \in {"get", "free"} => ram[v].own # "heap")
             \/ ram'[v].own \in {"null", "freed"}
             \/ ram'[v].own = "heap" /\ ram'[v].val # Garbage
      PROVE  Filled' /\ LiteralText'
  <2>1. LiteralText'
    BY <1>0, <1>1 DEF LiteralText
  <2>2. Filled'
    <3> SUFFICES ASSUME NEW w \in Vars, ram'[w].own = "heap", ram'[w].val = Garbage
                 PROVE  \E u \in Tasks : task'[u].pc \in {"get", "free"} /\ task'[u].i = w
      BY DEF Filled, Uninit
    <3>1. ram[w] = ram'[w] /\ (w = v => task[t].pc \notin {"get", "free"})
      BY <1>0, <1>1
    <3>2. PICK u \in Tasks : task[u].pc \in {"get", "free"} /\ task[u].i = w
      BY <3>1 DEF Filled, Uninit
    <3>3. u # t
      BY <3>1, <3>2
    <3> QED  BY <1>0, <3>2, <3>3
  <2> QED  BY <2>1, <2>2
<1>2. ASSUME task'[t].pc \in {"get", "free"}, task'[t].i = v, ram'[v].own # "rodata" \/ ram'[v] = ram[v]
      PROVE  Filled' /\ LiteralText'
  <2>1. LiteralText'
    BY <1>0, <1>2 DEF LiteralText
  <2>2. Filled'
    <3> SUFFICES ASSUME NEW w \in Vars, Uninit(w)', w # v
                 PROVE  \E u \in Tasks : task'[u].pc \in {"get", "free"} /\ task'[u].i = w
      BY <1>2 DEF Filled
    <3>1. Uninit(w)
      BY <1>0 DEF Uninit
    <3>2. PICK u \in Tasks : task[u].pc \in {"get", "free"} /\ task[u].i = w
      BY <3>1 DEF Filled
    <3> QED  BY <1>0, <3>2
  <2> QED  BY <2>1, <2>2
<1>3. CASE ReadOpen(t) \/ ReadSize(t)
  BY <1>1, <1>3 DEF ReadOpen, ReadSize, At
<1>4. CASE ReadAlloc(t)
  <2>1. CASE ram' = [ram EXCEPT ![v] = NewBuffer(task[t].sz)] /\ Goto(t, "get")
    BY <1>0, <1>2, <2>1, GotoMoves DEF NewBuffer, Heap, TypeOK
  <2>2. CASE ram' = [ram EXCEPT ![v] = NullPtr]
    BY <1>0, <1>1, <2>2, SMTT(30) DEF NullPtr, TypeOK
  <2> QED  BY <1>4, <2>1, <2>2 DEF ReadAlloc
<1>5. CASE ReadGet(t)
  <2>1. CASE Goto(t, "free") /\ ram' = ram
    BY <1>0, <1>2, <2>1, GotoMoves
  <2>2. CASE ram' = IF ram[v].own = "heap" THEN [ram EXCEPT ![v].val = nvs[v]] ELSE ram
    <3>1. ram[v].own = "heap" => ram'[v].own = "heap" /\ ram'[v].val = nvs[v]
      BY <1>0, <2>2 DEF TypeOK, Pointers
    <3>2. ram[v].own # "heap" => ram' = ram
      BY <2>2
    <3> QED  BY <1>0, <1>1, <3>1, <3>2 DEF NvsClean
  <2> QED  BY <1>5, <2>1, <2>2 DEF ReadGet, Outcome
<1>6. CASE ReadFree(t) \/ ReadNull(t)
  <2>1. ram'[v].own \in {"null", "freed"}
    BY <1>0, <1>6 DEF ReadFree, ReadNull, Outcome, Released, NullPtr, TypeOK, Pointers
  <2> QED  BY <1>1, <2>1
<1> QED  BY <1>3, <1>4, <1>5, <1>6 DEF ReadVariables

LEMMA NextFilled ==
    ASSUME IInv, Filled, LiteralText, NvsClean, [Next]_vars
    PROVE  Filled' /\ LiteralText'
<1> USE DEF IInv
<1>0. ASSUME ram' = ram, \A t \in Tasks : \/ task'[t].pc = task[t].pc /\ task'[t].i = task[t].i
                                          \/ task[t].pc \notin {"get", "free"}
      PROVE  Filled' /\ LiteralText'
  <2>1. \A t \in Tasks, v \in Vars : task[t].pc \in {"get", "free"} /\ task[t].i = v
                                       => task'[t].pc \in {"get", "free"} /\ task'[t].i = v
    BY <1>0
  <2>2. \A v \in Vars : Uninit(v)' => Uninit(v)
    BY <1>0 DEF Uninit
  <2> QED  BY <1>0, <2>1, <2>2 DEF Filled, LiteralText
<1>1. CASE UNCHANGED vars
  BY <1>0, <1>1 DEF vars
<1>2. CASE Reboot
  BY <1>2, RebootMoves DEF Filled, LiteralText, Uninit, NullPtr
<1>3. CASE MainStep /\ ~Reboot
  <2>1. CASE ReadVariables("main")
    BY <1>3, <2>1, ReadVariablesFills, TaskFacts
  <2>2. CASE MainBoot \/ MainCheck \/ MainDefault
    BY <1>0, <1>3, <2>2, MainMoves, TaskFacts DEF MainBoot, MainCheck, MainDefault, At
  <2> QED  BY <1>3, <2>1, <2>2 DEF MainStep
<1>4. CASE HostStep /\ ~Reboot
  <2>1. CASE ReadVariables("host")
    BY <1>4, <2>1, ReadVariablesFills, TaskFacts
  <2>2. CASE ~ReadVariables("host")
    <3>1. task'["main"] = task["main"] /\ task["host"].pc \notin {"get", "free"}
      BY <1>4, <2>2, HostMoves, HostWritesText DEF Reading
    <3>2. LiteralText'
      BY <1>4, <2>2, HostWritesText DEF LiteralText
    <3>3. \A v \in Vars : Uninit(v)' => Uninit(v)
      BY <1>4, <2>2, HostWritesText, StringAssumption DEF Uninit
    <3> QED  BY <3>1, <3>2, <3>3 DEF Filled, Tasks
  <2> QED  BY <2>1, <2>2
<1>5. CASE Console /\ ~Reboot
  BY <1>0, <1>5, ConsoleMoves
<1> QED  BY <1>1, <1>2, <1>3, <1>4, <1>5, Steps

\* Whatever the payloads, the faults and the console commands: if no write that
\* raced with app_main has corrupted NVS, no later one stores what was in a
\* released string or in a buffer before it was filled
\* (main/myRemoteDevice.c:72-104).
THEOREM NoGarbageAfterCleanBoot == Spec /\ CleanBoot => NoGarbageStoredOnceBooted
<1> DEFINE Inv == IInv /\ Owned /\ Filled /\ LiteralText /\ NvsClean
           StoreStep == req.booted => \A v \in Vars : nvs'[v] = Garbage => nvs[v] = Garbage
<1>1. Init => Inv
  <2>1. Init => Filled /\ LiteralText /\ NvsClean
    BY EnvironmentAssumption, StringAssumption
    DEF Init, Filled, LiteralText, NvsClean, Uninit, NullPtr
  <2> QED  BY <2>1, InitIInv, InitOwned
<1>2. Inv /\ [Next]_vars /\ [CleanStep]_vars => Inv' /\ [StoreStep]_vars
  <2> SUFFICES ASSUME Inv, [Next]_vars, [CleanStep]_vars PROVE Inv' /\ [StoreStep]_vars
    OBVIOUS
  <2>1. IInv' /\ Owned' /\ Filled' /\ LiteralText'
    BY NextIInv, NextOwned, NextFilled DEF IInv
  <2>2. NvsClean'
    <3>1. CASE req.booted
      BY <3>1, NvsStaysClean
    <3>2. CASE ~req.booted /\ CleanStep
      BY <3>2 DEF CleanStep, NvsClean
    <3>3. CASE UNCHANGED vars
      BY <3>3, SMTT(30) DEF vars, NvsClean
    <3> QED  BY <3>1, <3>2, <3>3
  <2> QED  BY <2>1, <2>2 DEF NvsClean
<1> QED  BY <1>1, <1>2, PTL DEF Spec, CleanBoot, NoGarbageStoredOnceBooted

-----------------------------------------------------------------------------
(* The flow of control, as long as the operator does not erase NVS.          *)

Moves(t, from, to) ==
    task[t].pc \in from /\ task'[t].pc = to /\ task'[t].i = task[t].i
Turns(t, from, again, exit) ==
    /\ task[t].pc \in from
    /\ \/ /\ task[t].i < NumVars /\ task'[t].pc = again
          /\ task'[t].i = task[t].i + 1 /\ task'[t].live = task[t].live
       \/ task[t].i = NumVars /\ task'[t].pc = exit /\ task'[t].i = 1

\* The way of the host task through its callbacks.
LEMMA HostTurns ==
    ASSUME TypeOK, HostStep, ~ReadVariables("host"), ~Reboot
    PROVE  \/ (OnSync \/ HostEvent) /\ Moves("host", {"presync", "idle"}, "open")
           \/ Respond /\ Moves("host", {"respond"}, "idle")
           \/ FillFree /\ Moves("host", {"fill"}, "dup")
                /\ task["host"].i \in DOMAIN req.load
           \/ FillFree /\ Turns("host", {"fill"}, "fill", "mark")
                /\ task["host"].i \notin DOMAIN req.load /\ ram' = ram
           \/ FillDup /\ Turns("host", {"dup"}, "fill", "mark")
           \/ Mark /\ Moves("host", {"mark"}, "store") /\ task'["host"].live = nvsReady
           \/ Store /\ Turns("host", {"store"}, "store", "print")
           \/ LogTable /\ Moves("host", {"print"}, "open")
           \/ AdvName /\ Moves("host", {"name"}, "data")
           \/ AdvData /\ Moves("host", {"data"}, "idle")
<1> USE DEF Moves, Turns, At
<1>0. "host" \in Tasks
  BY TaskFacts
<1>1. CASE OnSync \/ HostEvent
  BY <1>0, <1>1, GotoMoves DEF OnSync, HostEvent, GapEvent, GattAccess, Advertise, TypeOK
<1>2. CASE Respond
  BY <1>0, <1>2, GotoMoves DEF Respond, Outcome
<1>3. CASE FillFree
  BY <1>0, <1>3, GotoMoves, LoopTurns DEF FillFree, Outcome
<1>4. CASE FillDup
  BY <1>0, <1>4, LoopTurns DEF FillDup
<1>5. CASE Mark
  <2>1. task' = [task EXCEPT !["host"] = [task["host"] EXCEPT !.pc = "store", !.live = nvsReady]]
    BY <1>5 DEF Mark
  <2> QED  BY <1>0, <1>5, <2>1, TaskFacts DEF Mark, TypeOK
<1>6. CASE Store
  BY <1>0, <1>6, LoopTurns DEF Store, Outcome
<1>7. CASE LogTable
  BY <1>0, <1>7 DEF LogTable, Advertise, Outcome, TypeOK
<1>8. CASE AdvName
  BY <1>0, <1>8, GotoMoves DEF AdvName, Outcome
<1>9. CASE AdvData
  BY <1>0, <1>9, GotoMoves, SMTT(30) DEF AdvData, Outcome
<1> QED  BY <1>1, <1>2, <1>3, <1>4, <1>5, <1>6, <1>7, <1>8, <1>9 DEF HostStep, Callback

\* Without an erase, readVariablesFromNvs keeps the handle that it opened.
HandleHeld == \A t \in Tasks : task[t].pc \in Reading => Usable(t)

\* Every loop over the table starts with the first variable.
FromFirst ==
    \A t \in Tasks : task[t].pc \notin Reading \cup {"defaults", "fill", "dup", "store"}
                       => task[t].i = 1

Steady == repl = "idle" /\ HandleHeld /\ FromFirst

\* One step of readVariablesFromNvs through a handle that is open.
LEMMA ReadCases ==
    ASSUME TypeOK, Steady, NEW t \in Tasks, ReadVariables(t), ~Reboot
    PROVE  LET v == task[t].i IN
           \/ /\ Moves(t, {"open"}, IF nvsReady THEN "size" ELSE Return(t))
              /\ task'[t].live = nvsReady /\ ram' = ram /\ (nvsReady => idLoss' = idLoss)
           \/ /\ nvs[v] = Absent /\ ram' = ram /\ UNCHANGED idLoss
              /\ Turns(t, {"size"}, "size", Return(t))
           \/ /\ nvs[v] # Absent /\ ram' = ram /\ UNCHANGED idLoss
              /\ Moves(t, {"size"}, "alloc") /\ task'[t].live = task[t].live
              /\ task'[t].sz = Size[nvs[v]]
           \/ /\ ram' = [ram EXCEPT ![v] = NewBuffer(task[t].sz)] /\ UNCHANGED idLoss
              /\ Moves(t, {"alloc"}, "get") /\ task'[t].live = task[t].live
              /\ task'[t].sz = task[t].sz
           \/ /\ "malloc" \in Faults /\ ram' = [ram EXCEPT ![v] = NullPtr]
              /\ Turns(t, {"alloc"}, "size", Return(t))
           \/ /\ nvs[v] # Absent /\ Size[nvs[v]] <= task[t].sz /\ UNCHANGED idLoss
              /\ ram' = IF ram[v].own = "heap" THEN [ram EXCEPT ![v].val = nvs[v]] ELSE ram
              /\ Turns(t, {"get"}, "size", Return(t))
           \/ /\ ~(nvs[v] # Absent /\ Size[nvs[v]] <= task[t].sz) /\ ram' = ram
              /\ Moves(t, {"get"}, "free") /\ task'[t].live = task[t].live
           \/ /\ ram' = [ram EXCEPT ![v] = Released(ram[v])] /\ UNCHANGED idLoss
              /\ Moves(t, {"free"}, "null") /\ task'[t].live = task[t].live
           \/ /\ ram' = [ram EXCEPT ![v] = NullPtr] /\ UNCHANGED idLoss
              /\ Turns(t, {"null"}, "size", Return(t))
<1> USE DEF At
<1> DEFINE v == task[t].i
<1>0. /\ task[t].pc \in Reading => Usable(t)
      /\ \A p : Goto(t, p) => /\ task'[t].pc = p /\ task'[t].i = v /\ task'[t].sz = task[t].sz
                              /\ task'[t].live = task[t].live
      /\ \A again, exit : Loop(t, again, exit) => Turns(t, {task[t].pc}, again, exit)
  BY LoopTurns DEF Steady, HandleHeld, Goto, Turns, TypeOK
<1>1. CASE ReadOpen(t)
  <2>1. nvsReady => idLoss' = idLoss
    <3>1. idLoss' = (idLoss \/ ~nvsReady) /\ idLoss \in BOOLEAN
      BY <1>1 DEF ReadOpen, TypeOK
    <3> QED  BY <3>1, Zenon
  <2> QED  BY <1>1, <2>1 DEF ReadOpen, Moves, TypeOK
<1>2. CASE ReadSize(t)
  <2>1. Usable(t)
    BY <1>0, <1>2 DEF ReadSize, Reading
  <2>2. CASE nvs[v] = Absent
    BY <1>0, <1>2, <2>2 DEF ReadSize, history
  <2>3. CASE nvs[v] # Absent
    BY <1>2, <2>1, <2>3 DEF ReadSize, history, Moves, TypeOK
  <2> QED  BY <2>2, <2>3
<1>3. CASE ReadAlloc(t)
  BY <1>0, <1>3, SMTT(30) DEF ReadAlloc, Moves
<1>4. CASE ReadGet(t)
  <2>1. Usable(t)
    BY <1>0, <1>4, SMTT(30) DEF ReadGet, Reading
  <2>2. CASE nvs[v] # Absent /\ Size[nvs[v]] <= task[t].sz
    BY <1>0, <1>4, <2>1, <2>2 DEF ReadGet, Outcome, history
  <2>3. CASE ~(nvs[v] # Absent /\ Size[nvs[v]] <= task[t].sz)
    BY <1>0, <1>4, <2>3 DEF ReadGet, Moves
  <2> QED  BY <2>2, <2>3
<1>5. CASE ReadFree(t)
  BY <1>0, <1>5 DEF ReadFree, Outcome, Moves, history
<1>6. CASE ReadNull(t)
  BY <1>0, <1>6 DEF ReadNull, history
<1> QED  BY <1>1, <1>2, <1>3, <1>4, <1>5, <1>6 DEF ReadVariables

\* The same of the host task, when malloc has memory.
LEMMA HostReadCases ==
    ASSUME TypeOK, Steady, "malloc" \notin Faults, NEW v, v = task["host"].i,
           ReadVariables("host"), ~Reboot
    PROVE  \/ /\ Moves("host", {"open"}, IF nvsReady THEN "size" ELSE Return("host"))
              /\ ram' = ram
           \/ /\ nvs[v] = Absent /\ ram' = ram
              /\ Turns("host", {"size"}, "size", Return("host"))
           \/ /\ nvs[v] # Absent /\ ram' = ram
              /\ Moves("host", {"size"}, "alloc") /\ task'["host"].sz = Size[nvs[v]]
           \/ /\ ram' = [ram EXCEPT ![v] = NewBuffer(task["host"].sz)]
              /\ Moves("host", {"alloc"}, "get") /\ task'["host"].sz = task["host"].sz
           \/ /\ nvs[v] # Absent /\ Size[nvs[v]] <= task["host"].sz
              /\ ram' = IF ram[v].own = "heap" THEN [ram EXCEPT ![v].val = nvs[v]] ELSE ram
              /\ Turns("host", {"get"}, "size", Return("host"))
           \/ /\ ~(nvs[v] # Absent /\ Size[nvs[v]] <= task["host"].sz)
              /\ task["host"].pc = "get" /\ Moves("host", {"get"}, "free")
           \/ task["host"].pc \in {"free", "null"}
<1>1. "host" \in Tasks
  BY TaskFacts
<1>2. /\ \A to : Moves("host", {"get"}, to) => task["host"].pc = "get"
      /\ \A to : Moves("host", {"free"}, to) => task["host"].pc = "free"
      /\ \A to, exit : Turns("host", {"null"}, to, exit) => task["host"].pc = "null"
  BY DEF Moves, Turns
<1> QED  BY <1>1, <1>2, ReadCases

NoErase == "erase" \notin Commands

LEMMA ReadVariablesSteady ==
    ASSUME TypeOK, Steady, NEW t \in Tasks, ReadVariables(t), ~Reboot
    PROVE  Steady'
<1>1. /\ \A u \in Tasks \ {t} : task'[u] = task[u]
      /\ repl' = "idle" /\ nvsReady' = nvsReady
  BY ReadVariablesMoves DEF Steady
<1>2. Return(t) \notin Reading \cup {"defaults", "dup", "store", "open"}
  BY DEF Return, Reading
<1>3. /\ task[t].pc \in Reading \cup {"open"}
      /\ task[t].pc \in Reading => nvsReady /\ task[t].live
      /\ task[t].pc = "open" => task[t].i = 1
  BY ReadVariablesMoves DEF Steady, HandleHeld, FromFirst, Usable, Reading
<1>4. /\ task'[t].pc \in Reading => nvsReady /\ task'[t].live
      /\ task'[t].pc \in Reading \/ task'[t].i = 1
  BY <1>2, <1>3, ReadCases DEF Moves, Turns, Reading
<1>5. HandleHeld'
  BY <1>1, <1>4 DEF Steady, HandleHeld, Usable
<1>6. FromFirst'
  BY <1>1, <1>4 DEF Steady, FromFirst
<1> QED  BY <1>1, <1>5, <1>6 DEF Steady

LEMMA NextSteady ==
    ASSUME NoErase, TypeOK, Steady, [Next]_vars
    PROVE  Steady'
<1>0. "main" \in Tasks /\ "host" \in Tasks /\ Tasks = {"main", "host"}
  BY TaskFacts
<1>1. CASE UNCHANGED vars
  BY <1>1 DEF vars, Steady, HandleHeld, FromFirst, Usable
<1>2. CASE Reboot
  <2>1. \A t \in Tasks : task'[t].pc \notin Reading /\ task'[t].i = 1
    BY <1>2 DEF Reboot, BootTask, Reading
  <2> QED  BY <1>2, <2>1 DEF Reboot, Steady, HandleHeld, FromFirst
<1>3. CASE MainStep /\ ~Reboot
  <2>1. CASE ReadVariables("main")
    BY <1>0, <1>3, <2>1, ReadVariablesSteady
  <2>2. CASE MainBoot \/ MainCheck \/ MainDefault
    <3>1. /\ task'["host"] = task["host"] /\ UNCHANGED <<nvsReady, repl>>
      BY <1>3, MainMoves
    <3>2. /\ task'["main"].pc \notin Reading
          /\ task'["main"].pc # "defaults" => task'["main"].i = 1
      <4>1. CASE MainBoot
        BY <1>0, <4>1, GotoMoves DEF MainBoot, At, Reading, Steady, FromFirst
      <4>2. CASE MainCheck
        BY <1>0, <4>2 DEF MainCheck, At, Reading, Steady, FromFirst, TypeOK
      <4>3. CASE MainDefault
        BY <1>0, <4>3, LoopTurns DEF MainDefault, Reading
      <4> QED  BY <2>2, <4>1, <4>2, <4>3
    <3> QED  BY <1>0, <3>1, <3>2 DEF Steady, HandleHeld, FromFirst, Usable
  <2> QED  BY <1>3, <2>1, <2>2 DEF MainStep
<1>4. CASE HostStep /\ ~Reboot
  <2>1. CASE ReadVariables("host")
    BY <1>0, <1>4, <2>1, ReadVariablesSteady
  <2>2. CASE ~ReadVariables("host")
    <3>1. task'["main"] = task["main"] /\ UNCHANGED <<nvsReady, repl>>
      BY <1>4, HostMoves
    <3>2. /\ task'["host"].pc \notin Reading
          /\ task'["host"].pc \notin {"fill", "dup", "store"} => task'["host"].i = 1
      BY <1>0, <1>4, <2>2, HostTurns DEF Moves, Turns, Reading, Steady, FromFirst
    <3> QED  BY <1>0, <3>1, <3>2 DEF Steady, HandleHeld, FromFirst, Usable
  <2> QED  BY <2>1, <2>2
<1>5. CASE Console /\ ~Reboot
  <2>1. ~EraseNvs /\ ~EraseInit
    BY DEF NoErase, EraseNvs, EraseInit, Steady
  <2>2. UNCHANGED <<task, nvsReady, repl>>
    BY <1>5, <2>1 DEF Console, PrintMRD, SetNvs, DelNvs
  <2> QED  BY <2>2 DEF Steady, HandleHeld, FromFirst, Usable
<1> QED  BY <1>1, <1>2, <1>3, <1>4, <1>5, Steps

LEMMA InitSteady == Init => Steady
BY DEF Init, Steady, HandleHeld, FromFirst, BootTask, Reading, Tasks

-----------------------------------------------------------------------------
(* As long as the operator removes no key either.                            *)

NoRemoval == Commands \subseteq {"print"}

\* A key whose size was read is still there.
KeyThere == \A t \in Tasks : task[t].pc \in Reading \ {"size"} => nvs[task[t].i] # Absent

LEMMA KeysStay ==
    ASSUME NoRemoval, TypeOK, Steady, [Next]_vars
    PROVE  \A v \in Vars : nvs[v] # Absent => nvs'[v] # Absent
<1>1. CASE UNCHANGED vars
  BY <1>1 DEF vars
<1>2. CASE Reboot
  BY <1>2, RebootMoves DEF Steady
<1>3. CASE MainStep /\ ~Reboot
  <2>1. CASE MainDefault
    <3>1. nvs' = nvs \/ nvs' = [nvs EXCEPT ![task["main"].i] = DefaultValue[task["main"].i]]
      BY <2>1 DEF MainDefault, WriteDefault
    <3>2. task["main"].i \in Vars /\ nvs \in [Vars -> Stored]
      BY TaskFacts DEF TypeOK
    <3>3. DefaultValue[task["main"].i] # Absent
      BY <3>2, StringAssumption
    <3> HIDE DEF Vars
    <3> QED  BY <3>1, <3>2, <3>3
  <2>2. CASE ~MainDefault
    <3>1. nvs' = nvs
      BY <1>3, <2>2, ReadVariablesMoves, TaskFacts DEF MainStep, MainBoot, MainCheck, flash
    <3> QED  BY <3>1
  <2> QED  BY <2>1, <2>2
<1>4. CASE HostStep /\ ~Reboot
  <2>1. Seen(ram[task["host"].i]) # Absent
    BY TaskFacts, PointerFacts, StringAssumption
  <2>2. nvs' = nvs \/ nvs' = [nvs EXCEPT ![task["host"].i] = Seen(ram[task["host"].i])]
    BY <1>4, HostMoves DEF Store, Outcome
  <2> QED  BY <2>1, <2>2 DEF TypeOK
<1>5. CASE Console /\ ~Reboot
  <2>1. PICK v \in Vars, s \in SetValues : SetNvs(v, s)
    BY <1>5 DEF Console, PrintMRD, DelNvs, EraseNvs, EraseInit, NoRemoval, Steady
  <2> QED  BY <2>1, EnvironmentAssumption, StringAssumption DEF SetNvs, TypeOK
<1> QED  BY <1>1, <1>2, <1>3, <1>4, <1>5, Steps

LEMMA NextKeyThere ==
    ASSUME NoRemoval, TypeOK, Steady, KeyThere, [Next]_vars
    PROVE  KeyThere'
<1> DEFINE Same(t) == \/ task'[t].pc = task[t].pc /\ task'[t].i = task[t].i
                      \/ task'[t].pc \notin Reading \ {"size"}
<1>0. /\ "main" \in Tasks /\ "host" \in Tasks /\ Tasks = {"main", "host"}
      /\ \A v \in Vars : nvs[v] # Absent => nvs'[v] # Absent
      /\ \A t \in Tasks : task[t].i \in Vars
  BY TaskFacts, KeysStay
<1>1. ASSUME NEW t \in Tasks, Same(t)
      PROVE  task'[t].pc \in Reading \ {"size"} => nvs'[task'[t].i] # Absent
  BY <1>0, <1>1 DEF KeyThere
<1>2. CASE UNCHANGED vars
  BY <1>1, <1>2 DEF vars, KeyThere
<1>3. CASE Reboot
  BY <1>3 DEF Reboot, BootTask, KeyThere, Reading
<1>4. ASSUME NEW t \in Tasks, ReadVariables(t), ~Reboot
      PROVE  KeyThere'
  <2>1. task'[t].pc \in Reading \ {"size"} => nvs[task'[t].i] # Absent /\ task'[t].i = task[t].i
    <3>1. Return(t) \notin Reading
      BY DEF Return, Reading
    <3> QED  BY <1>4, <3>1, ReadCases DEF Moves, Turns, Reading, KeyThere
  <2>2. \A u \in Tasks \ {t} : task'[u] = task[u]
    BY <1>4, ReadVariablesMoves
  <2> QED  BY <1>0, <1>1, <2>1, <2>2 DEF KeyThere
<1>5. CASE MainStep /\ ~Reboot
  <2>1. CASE MainBoot \/ MainCheck \/ MainDefault
    <3>1. task'["host"] = task["host"]
      BY <1>5, MainMoves, SMTT(30)
    <3>2. task'["main"].pc \notin Reading
      BY <1>0, <2>1, LoopTurns, GotoMoves DEF MainBoot, MainCheck, MainDefault, Reading, TypeOK
    <3> QED  BY <1>0, <1>1, <3>1, <3>2 DEF KeyThere
  <2> QED  BY <1>0, <1>4, <1>5, <2>1 DEF MainStep
<1>6. CASE HostStep /\ ~Reboot
  <2>1. CASE ~ReadVariables("host")
    <3>1. task'["main"] = task["main"]
      BY <1>6, HostMoves
    <3>2. task'["host"].pc \notin Reading
      BY <1>6, <2>1, HostTurns DEF Moves, Turns, Reading
    <3> QED  BY <1>0, <1>1, <3>1, <3>2 DEF KeyThere
  <2> QED  BY <1>0, <1>4, <1>6, <2>1
<1>7. CASE Console /\ ~Reboot
  BY <1>0, <1>1, <1>7, ConsoleMoves DEF KeyThere
<1> QED  BY <1>2, <1>3, <1>5, <1>6, <1>7, Steps

\* What holds under a console that neither erases nor deletes.
Quiet == Steady /\ KeyThere

LEMMA InitQuiet == Init => Quiet
BY InitSteady DEF Init, Quiet, KeyThere, BootTask, Reading, Tasks

LEMMA NextQuiet == ASSUME NoRemoval, TypeOK, Quiet, [Next]_vars PROVE Quiet'
<1>1. NoErase
  BY DEF NoRemoval, NoErase
<1> QED  BY <1>1, NextSteady, NextKeyThere DEF Quiet

-----------------------------------------------------------------------------
(* What a callback has read of the table.                                    *)

\* The variables that readVariablesFromNvs has dealt with in this callback.
Passed(t) ==
    IF task[t].pc \in Reading THEN {v \in Vars : v < task[t].i}
    ELSE IF task[t].pc \in {"open", "idle", "presync", "boot"} THEN {} ELSE Vars

\* A turn of the loop deals with one more, a step within it with none.
LEMMA PassedMoves ==
    ASSUME TypeOK, Steady, NEW t \in Tasks
    PROVE  /\ \A from \in Reading : Turns(t, {from}, "size", Return(t))
                => Passed(t)' \subseteq Passed(t) \cup {task[t].i}
           /\ \A from, to \in Reading : Moves(t, {from}, to) => Passed(t)' = Passed(t)
           /\ Moves(t, {"open"}, "size") => Passed(t)' = {}
<1>0. /\ Return(t) \notin Reading \cup {"open", "idle", "presync", "boot"}
      /\ "size" \in Reading /\ "open" \notin Reading
      /\ task[t].i \in Nat /\ NumVars \in Nat /\ Vars = 1 .. NumVars
      /\ task[t].pc = "open" => task[t].i = 1
  BY TaskFacts, TableAssumption DEF Return, Reading, Vars, Steady, FromFirst
<1>1. ASSUME NEW from \in Reading, Turns(t, {from}, "size", Return(t))
      PROVE  Passed(t)' \subseteq Passed(t) \cup {task[t].i}
  <2>1. CASE task[t].i < NumVars /\ task'[t].pc = "size" /\ task'[t].i = task[t].i + 1
    BY <1>0, <1>1, <2>1 DEF Passed, Turns
  <2>2. CASE task[t].i = NumVars /\ task'[t].pc = Return(t)
    BY <1>0, <1>1, <2>2 DEF Passed, Turns
  <2> QED  BY <1>1, <2>1, <2>2 DEF Turns
<1>2. ASSUME NEW from \in Reading, NEW to \in Reading, Moves(t, {from}, to)
      PROVE  Passed(t)' = Passed(t)
  BY <1>2 DEF Passed, Moves
<1>3. ASSUME Moves(t, {"open"}, "size")
      PROVE  Passed(t)' = {}
  BY <1>0, <1>3 DEF Passed, Moves
<1> QED  BY <1>1, <1>2, <1>3

\* A callback passes from reading to the rest, and forgets what it has read
\* when it ends.
LEMMA PassedAfter ==
    ASSUME TypeOK, HostStep, ~ReadVariables("host"), ~Reboot
    PROVE  \/ Passed("host")' = {}
           \/ Passed("host") = Vars /\ Passed("host")' = Vars /\ req' = req
<1>1. \/ task'["host"].pc \in {"open", "idle"}
      \/ /\ task["host"].pc \in {"fill", "dup", "mark", "store", "name"}
         /\ task'["host"].pc \in {"fill", "dup", "mark", "store", "print", "data"}
         /\ req' = req
  BY HostTurns DEF Moves, Turns, FillFree, FillDup, Mark, Store, AdvName, Outcome
<1> QED  BY <1>1, SMTT(30) DEF Passed, Reading

-----------------------------------------------------------------------------
(* A console that leaves NVS alone: what was stored is what was there.       *)

NoSetNvs == SetValues = {}

LEMMA ConsoleQuiet == ASSUME NoRemoval, NoSetNvs, Steady, Console PROVE Reboot
BY DEF NoRemoval, NoSetNvs, Steady, Console, PrintMRD, DelNvs, SetNvs, EraseNvs, EraseInit

LEMMA NextLiteral ==
    ASSUME IInv, LiteralText, [Next]_vars
    PROVE  LiteralText'
<1> USE DEF IInv
<1>1. ASSUME NEW t \in Tasks, ReadVariables(t), ~Reboot
      PROVE  LiteralText'
  <2> DEFINE v == task[t].i
  <2>1. v \in Vars /\ ram[v] \in Pointers /\ \A w \in Vars \ {v} : ram'[w] = ram[w]
    BY <1>1, TaskFacts, ReadVariablesMoves
  <2>2. \/ ram' = ram
        \/ ram[v].own = "heap" /\ ram' = [ram EXCEPT ![v].val = nvs[v]]
        \/ ram' = [ram EXCEPT ![v] = NewBuffer(task[t].sz)]
        \/ ram' = [ram EXCEPT ![v] = NullPtr]
        \/ ram' = [ram EXCEPT ![v] = Released(ram[v])]
    BY <1>1 DEF ReadVariables, ReadOpen, ReadSize, ReadAlloc, ReadGet, ReadFree, ReadNull, Outcome
  <2>3. ram'[v] = ram[v] \/ ram'[v].own # "rodata"
    <3>1. Released(ram[v]).own # "rodata" /\ NullPtr.own # "rodata"
          /\ NewBuffer(task[t].sz).own # "rodata"
      BY <2>1 DEF NewBuffer, Heap, NullPtr, Released, Pointers
    <3>2. ram[v].own = "heap" => [ram[v] EXCEPT !.val = nvs[v]].own # "rodata"
      BY <2>1 DEF Pointers
    <3> QED  BY <2>1, <2>2, <3>1, <3>2, ZenonT(40) DEF TypeOK
  <2> QED  BY <2>1, <2>3 DEF LiteralText
<1>2. CASE UNCHANGED vars
  BY <1>2 DEF vars, LiteralText
<1>3. CASE Reboot
  BY <1>3, RebootMoves DEF LiteralText, NullPtr
<1>4. CASE MainStep /\ ~Reboot
  BY <1>1, <1>4, TaskFacts DEF MainStep, MainBoot, MainCheck, MainDefault, LiteralText
<1>5. CASE HostStep /\ ~Reboot
  BY <1>1, <1>5, TaskFacts, HostWritesText DEF LiteralText
<1>6. CASE Console /\ ~Reboot
  BY <1>6, ConsoleMoves DEF LiteralText
<1> QED  BY <1>2, <1>3, <1>4, <1>5, <1>6, Steps

\* Whoever has filled no buffer for a key has found the key.
UninitThere == \A v \in Vars : Uninit(v) => nvs[v] # Absent

\* What a callback has read is empty memory only where NVS holds such contents.
LoadedGarbage ==
    req.booted /\ nvsReady => \A v \in Passed("host") : Uninit(v) => nvs[v] = Garbage

LEMMA ReadVariablesLoads ==
    ASSUME NoRemoval, TypeOK, Owned, Quiet, UninitThere, LoadedGarbage,
           NEW t \in Tasks, ReadVariables(t), ~Reboot, t = "main" => ~req.booted
    PROVE  UninitThere' /\ LoadedGarbage'
<1>a. PICK v \in Vars : v = task[t].i
  BY TaskFacts
<1>0. /\ v \in Vars /\ v = task[t].i /\ ram[v] \in Pointers /\ Steady /\ KeyThere
      /\ \A w \in Vars \ {v} : ram'[w] = ram[w]
      /\ UNCHANGED <<nvs, nvsReady, req>>
      /\ {"size", "alloc", "get", "free", "null"} \subseteq Reading
      /\ Passed("host") \subseteq Vars
  BY <1>a, TaskFacts, ReadVariablesMoves DEF Quiet, Reading, Passed
<1>1. UninitThere'
  <2>1. Uninit(v)' => Uninit(v) \/ nvs[v] # Absent
    BY <1>0, ReadCases, ZenonT(40)
    DEF Moves, Turns, Uninit, KeyThere, NullPtr, Released, TypeOK, Pointers, Reading
  <2> QED  BY <1>0, <2>1, SMTT(90) DEF UninitThere, Uninit
<1>2. CASE ~req.booted \/ ~nvsReady
  BY <1>0, <1>1, <1>2 DEF LoadedGarbage
<1>3. ASSUME req.booted, nvsReady PROVE LoadedGarbage'
  <2>0. t = "host"
    BY <1>3 DEF Tasks
  <2>1. ASSUME Passed(t)' \subseteq Passed(t) \cup {v}, Uninit(v)' => nvs[v] = Garbage
        PROVE  LoadedGarbage'
    BY <1>0, <2>0, <2>1 DEF LoadedGarbage, Uninit
  <2>2. ASSUME Passed(t)' \subseteq Passed(t), v \notin Passed(t)' \/ (Uninit(v)' => Uninit(v))
        PROVE  LoadedGarbage'
    BY <1>0, <2>0, <2>2 DEF LoadedGarbage, Uninit
  <2>3. v \notin Passed(t) \/ task[t].pc \notin Reading
    BY <1>0, VarsFacts DEF Passed
  <2>4. CASE Moves(t, {"open"}, IF nvsReady THEN "size" ELSE Return(t))
    <3>1. Passed(t)' = {}
      BY <1>0, <1>3, <2>4, PassedMoves
    <3> QED  BY <2>2, <3>1
  <2>5. CASE nvs[v] = Absent /\ ram' = ram /\ Turns(t, {"size"}, "size", Return(t))
    BY <1>0, <2>1, <2>5, PassedMoves DEF UninitThere, Uninit
  <2>6. CASE \E from, to \in Reading : Moves(t, {from}, to)
    <3>1. Passed(t)' = Passed(t) /\ v \notin Passed(t)
      BY <1>0, <2>3, <2>6, PassedMoves DEF Moves
    <3> QED  BY <2>2, <3>1
  <2>7. CASE ram' = [ram EXCEPT ![v] = NullPtr]
              /\ (Turns(t, {"alloc"}, "size", Return(t)) \/ Turns(t, {"null"}, "size", Return(t)))
    <3>1. ~Uninit(v)'
      BY <1>0, <2>7 DEF NullPtr, Uninit, TypeOK
    <3>2. Passed(t)' \subseteq Passed(t) \cup {v}
      BY <1>0, <2>7, PassedMoves
    <3> QED  BY <1>0, <2>1, <3>1, <3>2
  <2>8. CASE ram' = (IF ram[v].own = "heap" THEN [ram EXCEPT ![v].val = nvs[v]] ELSE ram)
              /\ Turns(t, {"get"}, "size", Return(t))
    <3>1. Uninit(v)' => nvs[v] = Garbage
      BY <1>0, <2>8 DEF Uninit, TypeOK, Pointers
    <3>2. Passed(t)' \subseteq Passed(t) \cup {v}
      BY <1>0, <2>8, PassedMoves
    <3> QED  BY <1>0, <2>1, <3>1, <3>2, SMTT(30)
  <2> QED  BY <1>0, <2>4, <2>5, <2>6, <2>7, <2>8, ReadCases
<1> QED  BY <1>1, <1>2, <1>3

LEMMA NextLoads ==
    ASSUME NoRemoval, NoSetNvs, IInv, Owned, Quiet, UninitThere, LoadedGarbage, [Next]_vars
    PROVE  UninitThere' /\ LoadedGarbage'
<1> USE DEF IInv
<1>0. Steady /\ "main" \in Tasks /\ "host" \in Tasks
  BY TaskFacts DEF Quiet
<1>1. CASE UNCHANGED vars
  BY <1>1 DEF vars, UninitThere, LoadedGarbage, Uninit, Passed
<1>2. CASE Reboot
  BY <1>2, RebootMoves DEF UninitThere, LoadedGarbage, Uninit, NullPtr, NoReq
<1>3. CASE MainStep /\ ~Reboot
  <2>1. ~req.booted
    BY <1>3, MainMoves DEF Owned, Exclusive
  <2>2. CASE ReadVariables("main")
    BY <1>0, <1>3, <2>1, <2>2, ReadVariablesLoads
  <2>3. CASE MainBoot \/ MainCheck \/ MainDefault
    <3>1. ram' = ram /\ req' = req
      BY <2>3 DEF MainBoot, MainCheck, MainDefault
    <3>2. \A v \in Vars : nvs[v] # Absent => nvs'[v] # Absent
      BY <1>0, KeysStay
    <3> QED  BY <2>1, <3>1, <3>2 DEF UninitThere, LoadedGarbage, Uninit
  <2> QED  BY <1>3, <2>2, <2>3 DEF MainStep
<1>4. CASE HostStep /\ ~Reboot
  <2>1. CASE ReadVariables("host")
    BY <1>0, <1>4, <2>1, ReadVariablesLoads
  <2>2. CASE ~ReadVariables("host")
    <3>1. \A v \in Vars : Uninit(v)' => Uninit(v)
      BY <1>4, <2>2, HostWritesText, StringAssumption DEF Uninit
    <3>2. UninitThere'
      BY <1>0, <3>1, KeysStay DEF UninitThere
    <3>3. \A v \in Vars : Uninit(v) /\ nvs[v] = Garbage => nvs'[v] = Garbage
      <4>1. \/ nvs' = nvs
            \/ nvs' = [nvs EXCEPT ![task["host"].i] = Seen(ram[task["host"].i])]
        BY <1>4, HostMoves DEF Store, Outcome
      <4> QED  BY <4>1 DEF Uninit, Seen, TypeOK
    <3>4. nvsReady' = nvsReady
      BY <1>4, HostMoves
    <3>5. CASE Passed("host")' = {}
      BY <3>2, <3>5 DEF LoadedGarbage
    <3>6. CASE Passed("host") = Vars /\ Passed("host")' = Vars /\ req' = req
      BY <3>1, <3>2, <3>3, <3>4, <3>6 DEF LoadedGarbage
    <3> QED  BY <1>4, <2>2, <3>5, <3>6, PassedAfter
  <2> QED  BY <2>1, <2>2
<1> QED  BY <1>0, <1>1, <1>2, <1>3, <1>4, ConsoleQuiet, Steps

\* Whatever the payloads, the faults and the race of app_main with an early
\* write: as long as the console leaves NVS alone, a callback that began after
\* the boot spreads no contents of released memory further than NVS already
\* holds them (main/myRemoteDevice.c:72-104).
THEOREM NoGarbageSpreads == ASSUME NoRemoval, NoSetNvs PROVE Spec => NoGarbageStoredOnceBooted
<1> DEFINE Inv == IInv /\ Owned /\ Quiet /\ LiteralText /\ UninitThere /\ LoadedGarbage
           StoreStep == req.booted => \A v \in Vars : nvs'[v] = Garbage => nvs[v] = Garbage
<1>1. Init => Inv
  <2>1. Init => LiteralText /\ UninitThere /\ LoadedGarbage
    BY DEF Init, LiteralText, UninitThere, LoadedGarbage, Uninit, NullPtr, NoReq
  <2> QED  BY <2>1, InitIInv, InitOwned, InitQuiet
<1>2. Inv /\ [Next]_vars => Inv' /\ [StoreStep]_vars
  <2> SUFFICES ASSUME Inv, [Next]_vars PROVE Inv' /\ [StoreStep]_vars
    OBVIOUS
  <2>1. Inv'
    BY NextIInv, NextOwned, NextQuiet, NextLiteral, NextLoads DEF IInv
  <2>2. [StoreStep]_vars
    <3> SUFFICES ASSUME Next, req.booted, NEW v \in Vars, nvs'[v] = Garbage, nvs[v] # Garbage
                 PROVE  FALSE
      OBVIOUS
    <3>1. TypeOK /\ Steady /\ nvs' # nvs
      BY DEF IInv, Quiet
    <3>2. HostStep /\ ~Reboot
      BY <3>1, Steps, RebootMoves, MainMoves, ConsoleQuiet DEF Steady, Owned, Exclusive
    <3>3. Store
      BY <3>1, <3>2, HostMoves, SMTT(30)
    <3> DEFINE w == task["host"].i
    <3>a. task["host"].pc = "store" /\ ram[w] \in Pointers
      BY <3>1, <3>3, TaskFacts DEF Store, At, TypeOK
    <3>b. TypeOK /\ w \in Vars /\ v \in Vars /\ nvs[v] # Garbage /\ nvs'[v] = Garbage
      BY <3>1, <3>2, TaskFacts
    <3>c. /\ WrittenBack(w) /\ Usable("host")
          /\ nvs' = [nvs EXCEPT ![w] = Seen(ram[w])] \/ nvs' = nvs
      BY <3>1, <3>2, <3>3, SMTT(30) DEF Store, Outcome
    <3>4. /\ w = v /\ ram[w].own # "null" /\ Usable("host") /\ Seen(ram[w]) = Garbage
          /\ task["host"].pc = "store" /\ ram[w] \in Pointers
      BY <3>a, <3>b, <3>c DEF WrittenBack, TypeOK
    <3>5. ram[v].own # "freed"
      BY <3>4, NothingDangles
    <3>6. Uninit(v)
      BY <3>4, <3>5, StringAssumption DEF Uninit, Seen, Pointers, LiteralText
    <3>7. v \in Passed("host")
      BY <3>4 DEF Passed, Reading
    <3> QED  BY <3>4, <3>6, <3>7 DEF LoadedGarbage, Usable
  <2> QED  BY <2>1, <2>2
<1> QED  BY <1>1, <1>2, PTL DEF Spec, NoGarbageStoredOnceBooted

-----------------------------------------------------------------------------
(* The order of the writes: the flag first, the ID last.                     *)

NoLostWrite == Faults \subseteq {"init"}
FlaggedImages == \A n \in FlashImages : n[IdVar] # Absent => n[InitVar] # Absent

\* The flag has a value, in RAM or in NVS.
Flagged == ram[InitVar].own # "null" \/ nvs[InitVar] # Absent

\* The first advertisement gives it one, before any callback may write.
FlagFirst ==
    \/ Flagged
    \/ At("host", "presync")
    \/ req.job = "adv" /\ task["host"].pc \in Reading \cup {"open", "name"}

\* Both loops that write NVS begin with the flag.
FlagStored ==
    /\ At("host", "store") /\ task["host"].i > 1 /\ Usable("host") => nvs[InitVar] # Absent
    /\ At("main", "defaults") /\ task["main"].i > 1 => nvs[InitVar] # Absent

FlagInv == FlagFirst /\ FlagStored /\ IdNeverWithoutFlag

\* As long as malloc does not fail, only readVariablesFromNvs makes a pointer null.
LEMMA HostNullsNothing ==
    ASSUME NoLostWrite, TypeOK, HostStep, ~ReadVariables("host"), ~Reboot
    PROVE  \A v \in Vars : ram'[v].own = "null" => ram[v].own = "null"
<1>0. "host" \in Tasks /\ InitVar \in Vars
  BY TaskFacts, VarsFacts
<1>1. CASE FillDup
  <2>1. ram' = [ram EXCEPT ![task["host"].i] = Heap(req.load[task["host"].i],
                                                    Size[req.load[task["host"].i]])]
    BY <1>1 DEF FillDup, StrDup, NoLostWrite
  <2> QED  BY <2>1 DEF Heap, TypeOK
<1>2. CASE FillFree
  <2>1. \/ ram' = ram
        \/ ram' = [ram EXCEPT ![task["host"].i] = Released(ram[task["host"].i])]
    BY <1>2 DEF FillFree, Outcome
  <2>2. ram[task["host"].i].own # "null" => Released(ram[task["host"].i]).own # "null"
    BY <1>0, TaskFacts DEF Released, Pointers
  <2> QED  BY <2>1, <2>2 DEF TypeOK
<1>3. CASE ~FillDup /\ ~FillFree
  <2>1. \/ ram' = ram \/ ram' = [ram EXCEPT ![InitVar] = Rodata(TrueStr)]
        \/ ram' = [ram EXCEPT ![InitVar] = FlagOrDefault(ram[InitVar])]
    BY <1>3
    DEF HostStep, OnSync, HostEvent, GapEvent, GattAccess, Callback, Respond, Mark, Store,
        LogTable, AdvName, AdvData, Outcome
  <2>2. FlagOrDefault(ram[InitVar]).own # "null" /\ Rodata(TrueStr).own # "null"
    BY DEF FlagOrDefault, Rodata
  <2> QED  BY <2>1, <2>2 DEF TypeOK
<1> QED  BY <1>1, <1>2, <1>3

\* A key in RAM is only lost while it is in NVS.
LEMMA KeptSomewhere ==
    ASSUME NoLostWrite, NoRemoval, IInv, Quiet, [Next]_vars, ~Reboot, NEW v \in Vars,
           ram[v].own # "null" \/ nvs[v] # Absent
    PROVE  ram'[v].own # "null" \/ nvs'[v] # Absent
<1> USE DEF IInv, Quiet
<1>1. nvs[v] # Absent => nvs'[v] # Absent
  BY KeysStay
<1>2. ASSUME NEW t \in Tasks, ReadVariables(t), ram'[v].own = "null", ram[v].own # "null"
      PROVE  nvs[v] # Absent
  <2>1. v = task[t].i /\ ram[v] \in Pointers
    BY <1>2, ReadVariablesMoves DEF TypeOK
  <2>2. ~("malloc" \in Faults)
    BY DEF NoLostWrite
  <2>3. task[t].pc = "null"
    <3>1. \/ ram' = ram
          \/ ram' = [ram EXCEPT ![v] = NewBuffer(task[t].sz)]
          \/ ram[v].own = "heap" /\ ram' = [ram EXCEPT ![v] = [ram[v] EXCEPT !.val = nvs[v]]]
          \/ ram' = [ram EXCEPT ![v] = Released(ram[v])]
          \/ task[t].pc = "null"
      BY <1>2, <2>1, <2>2, ReadCases DEF Moves, Turns
    <3>2. /\ NewBuffer(task[t].sz).own # "null" /\ Released(ram[v]).own # "null"
          /\ ram[v].own = "heap" => [ram[v] EXCEPT !.val = nvs[v]].own # "null"
      BY <1>2, <2>1 DEF NewBuffer, Heap, Released, Pointers
    <3> QED  BY <1>2, <3>1, <3>2 DEF TypeOK
  <2> QED  BY <2>1, <2>3 DEF KeyThere, Reading
<1>4. CASE UNCHANGED vars
  BY <1>4 DEF vars
<1>5. CASE MainStep
  BY <1>1, <1>2, <1>5, TaskFacts DEF MainStep, MainBoot, MainCheck, MainDefault
<1>6. CASE HostStep
  BY <1>1, <1>2, <1>6, TaskFacts, HostNullsNothing
<1>7. CASE Console
  BY <1>1, <1>7, ConsoleMoves
<1> QED  BY <1>4, <1>5, <1>6, <1>7, Steps

LEMMA NextFlagFirst ==
    ASSUME NoLostWrite, NoRemoval, NoSetNvs, IInv, Quiet, FlagFirst, [Next]_vars
    PROVE  FlagFirst'
<1> USE DEF IInv, Quiet
<1>1. CASE Reboot
  BY <1>1, RebootMoves DEF FlagFirst, At
<1>2. CASE Flagged /\ ~Reboot
  BY <1>2, KeptSomewhere, VarsFacts DEF FlagFirst, Flagged
<1>3. CASE ~Flagged /\ ~Reboot
  <2>1. CASE UNCHANGED vars
    BY <2>1 DEF vars, FlagFirst, Flagged, At
  <2>2. CASE MainStep
    BY <1>3, <2>2, MainMoves DEF FlagFirst, At
  <2>3. CASE ReadVariables("host")
    <3>1. req.job = "adv" /\ req' = req
      BY <1>3, <2>3, TaskFacts, ReadVariablesMoves DEF FlagFirst, At, Reading
    <3>2. task'["host"].pc \in Reading \cup {"name"}
      <4>1. Return("host") = "name" /\ "host" \in Tasks
        BY <3>1, TaskFacts DEF Return
      <4> QED  BY <1>3, <2>3, <4>1, ReadCases DEF Moves, Turns, Reading
    <3> QED  BY <3>1, <3>2 DEF FlagFirst
  <2>4. CASE HostStep /\ ~ReadVariables("host")
    <3>1. task["host"].pc \in {"presync", "name"}
      BY <1>3, <2>4, HostTurns DEF FlagFirst, At, Moves, Turns, Reading
    <3>2. CASE OnSync
      BY <3>2 DEF OnSync, NoReq, Advertise, FlagFirst, TypeOK, Tasks
    <3>3. CASE AdvName
      <4>1. ram' = [ram EXCEPT ![InitVar] = FlagOrDefault(ram[InitVar])]
        BY <1>3, <3>3 DEF AdvName, Outcome
      <4>2. ram'[InitVar].own # "null"
        BY <4>1, VarsFacts DEF FlagOrDefault, Rodata, TypeOK
      <4> QED  BY <4>2 DEF FlagFirst, Flagged
    <3> QED  BY <1>3, <2>4, <3>1, <3>2, <3>3, HostTurns
             DEF Moves, Turns, HostEvent, GapEvent, GattAccess, At
  <2> QED  BY <1>3, <2>1, <2>2, <2>3, <2>4, ConsoleQuiet, Steps
<1> QED  BY <1>1, <1>2, <1>3

LEMMA NextFlagStored ==
    ASSUME NoLostWrite, NoRemoval, NoSetNvs, IInv, Quiet, FlagInv, [Next]_vars
    PROVE  FlagStored' /\ IdNeverWithoutFlag'
<1> USE DEF IInv, Quiet
<1>0. /\ InitVar = 1 /\ IdVar \in Vars /\ InitVar \in Vars /\ IdVar > 1 /\ IdVar # InitVar
      /\ nvs[InitVar] # Absent => nvs'[InitVar] # Absent
      /\ "main" \in Tasks /\ "host" \in Tasks /\ "main" # "host"
      /\ \A t \in Tasks : task[t].i \in Nat
  <2>1. InitVar = 1 /\ IdVar > 1 /\ IdVar # InitVar
    BY TableAssumption DEF InitVar, IdVar
  <2>2. nvs[InitVar] # Absent => nvs'[InitVar] # Absent
    BY VarsFacts, KeysStay
  <2> QED  BY <2>1, <2>2, VarsFacts, TaskFacts
<1>1. CASE UNCHANGED vars
  BY <1>1 DEF vars, FlagInv, FlagStored, IdNeverWithoutFlag, At, Usable
<1>2. CASE Reboot
  BY <1>2, RebootMoves DEF FlagInv, FlagStored, IdNeverWithoutFlag, At, Steady
<1>3. CASE MainStep /\ ~Reboot
  <2>1. FlagStored'
    <3>1. At("host", "store")' /\ (task["host"].i)' > 1 /\ Usable("host")' => nvs'[InitVar] # Absent
      BY <1>0, <1>3, MainMoves DEF FlagInv, FlagStored, At, Usable
    <3>2. At("main", "defaults")' /\ (task["main"].i)' > 1 => nvs'[InitVar] # Absent
      <4>1. CASE ReadVariables("main")
        BY <1>0, <1>3, <4>1, ReadCases DEF Moves, Turns, At, Return
      <4>2. CASE MainBoot
        BY <1>0, <4>2, GotoMoves DEF MainBoot, At
      <4>3. CASE MainCheck
        <5>1. task["main"].i = 1
          BY <1>0, <4>3 DEF MainCheck, At, Steady, FromFirst, Reading
        <5>2. task'["main"].i = task["main"].i
          BY <1>0, <4>3 DEF MainCheck, TypeOK
        <5> QED  BY <5>1, <5>2
      <4>4. CASE MainDefault
        <5>1. nvs' = [nvs EXCEPT ![task["main"].i] = DefaultValue[task["main"].i]]
          BY <4>4 DEF MainDefault, WriteDefault, NoLostWrite
        <5>2. task["main"].i = 1 => nvs'[InitVar] # Absent
          <6>1. nvs \in [Vars -> Stored] /\ InitVar \in Vars /\ InitVar = 1
            BY <1>0, VarsFacts DEF TypeOK, InitVar
          <6>2. DefaultValue[InitVar] # Absent
            BY <6>1, StringAssumption
          <6> QED  BY <5>1, <6>1, <6>2
        <5>3. task["main"].i # 1 => task["main"].i > 1
          BY TaskFacts, TableAssumption DEF Vars
        <5> QED  BY <1>0, <4>4, <5>2, <5>3 DEF FlagInv, FlagStored, MainDefault
      <4> QED  BY <1>3, <4>1, <4>2, <4>3, <4>4 DEF MainStep
    <3> QED  BY <3>1, <3>2 DEF FlagStored
  <2>2. IdNeverWithoutFlag'
    <3>1. CASE MainDefault
      <4>1. nvs'[IdVar] # Absent => nvs[IdVar] # Absent \/ task["main"].i = IdVar
        BY <1>0, <3>1 DEF MainDefault, WriteDefault, TypeOK
      <4> QED  BY <1>0, <3>1, <4>1 DEF FlagInv, FlagStored, IdNeverWithoutFlag, MainDefault
    <3>2. CASE ~MainDefault
      <4>1. nvs' = nvs
        BY <1>0, <1>3, <3>2, ReadVariablesMoves DEF MainStep, MainBoot, MainCheck, flash
      <4> QED  BY <4>1 DEF FlagInv, IdNeverWithoutFlag
    <3> QED  BY <3>1, <3>2
  <2> QED  BY <2>1, <2>2
<1>4. CASE HostStep /\ ~Reboot
  <2>0. task'["main"] = task["main"] /\ nvsReady' = nvsReady /\ (nvs' = nvs \/ Store)
    BY <1>4, HostMoves
  <2>1. CASE Store
    <3> DEFINE w == task["host"].i
    <3>1. /\ task["host"].pc = "store" /\ w \in Vars
          /\ w # 1 => w > 1
          /\ WrittenBack(w) /\ Usable("host") => nvs' = [nvs EXCEPT ![w] = Seen(ram[w])]
          /\ ~(WrittenBack(w) /\ Usable("host")) => nvs' = nvs
          /\ Seen(ram[w]) # Absent
          /\ Turns("host", {"store"}, "store", "print")
      <4>1. /\ task["host"].pc = "store" /\ Loop("host", "store", "print")
            /\ WrittenBack(w) /\ Usable("host") => nvs' = [nvs EXCEPT ![w] = Seen(ram[w])]
            /\ ~(WrittenBack(w) /\ Usable("host")) => nvs' = nvs
        BY <1>0, <1>4, <2>1 DEF Store, Outcome, At, NoLostWrite
      <4>2. Turns("host", {"store"}, "store", "print")
        BY <1>0, <4>1, LoopTurns, TaskFacts DEF Turns
      <4>3. w \in Vars /\ (w # 1 => w > 1) /\ ram[w] \in Pointers
        BY <1>0, TaskFacts, TableAssumption DEF Vars
      <4>4. Seen(ram[w]) # Absent
        BY <4>3, PointerFacts, StringAssumption
      <4> QED  BY <4>1, <4>2, <4>3, <4>4
    <3>2. Flagged
      BY <3>1 DEF FlagInv, FlagFirst, At, Reading
    <3>3. Usable("host") /\ w = 1 => nvs'[InitVar] # Absent
      BY <1>0, <3>1, <3>2 DEF Flagged, WrittenBack, TypeOK
    <3>4. FlagStored'
      <4>1. At("host", "store")' /\ Usable("host")' => Usable("host")
        BY <2>0, <3>1 DEF At, Usable, Turns
      <4> QED  BY <1>0, <2>0, <3>1, <3>3, <4>1 DEF FlagInv, FlagStored, At
    <3>5. IdNeverWithoutFlag'
      <4>1. nvs'[IdVar] # Absent => nvs[IdVar] # Absent \/ (w = IdVar /\ Usable("host"))
        BY <1>0, <3>1 DEF TypeOK
      <4> QED  BY <1>0, <3>1, <4>1 DEF FlagInv, FlagStored, IdNeverWithoutFlag, At
    <3> QED  BY <3>4, <3>5
  <2>2. CASE ~Store
    <3>1. At("host", "store")' => (task["host"].i)' = 1
      <4>1. CASE ReadVariables("host")
        BY <1>0, <1>4, <4>1, ReadCases DEF Moves, Turns, Return, At
      <4>2. CASE ~ReadVariables("host")
        <5>1. task'["host"].pc = "store" => Moves("host", {"mark"}, "store")
          BY <1>4, <2>2, <4>2, HostTurns DEF Moves, Turns
        <5>2. task["host"].pc = "mark" => task["host"].i = 1
          BY <1>0 DEF Steady, FromFirst, Reading
        <5> QED  BY <5>1, <5>2 DEF At, Moves
      <4> QED  BY <4>1, <4>2
    <3> QED  BY <2>0, <2>2, <3>1 DEF FlagInv, FlagStored, IdNeverWithoutFlag, At
  <2> QED  BY <2>1, <2>2
<1> QED  BY <1>1, <1>2, <1>3, <1>4, ConsoleQuiet, Steps

\* The flag is stored first and the ID last, and no write begins before the
\* flag has a value: as long as writing to flash and malloc do not fail and the
\* console leaves NVS alone, whatever the payloads and wherever the power fails,
\* an ID in NVS is never without a flag
\* (main/myRemoteDevice.c:97-101, 117-122; main/ble.c:170).
THEOREM AlwaysFlagWithId ==
    ASSUME NoLostWrite, NoRemoval, NoSetNvs, FlaggedImages
    PROVE  Spec => []IdNeverWithoutFlag
<1>1. Init => IInv /\ Quiet /\ FlagInv
  <2>1. Init => FlagInv
    BY DEF Init, FlaggedImages, FlagInv, FlagFirst, FlagStored, IdNeverWithoutFlag, BootTask, At, Tasks
  <2> QED  BY <2>1, InitIInv, InitQuiet
<1>2. (IInv /\ Quiet /\ FlagInv) /\ [Next]_vars => (IInv /\ Quiet /\ FlagInv)'
  <2> SUFFICES ASSUME IInv, Quiet, FlagInv, [Next]_vars PROVE (IInv /\ Quiet /\ FlagInv)'
    OBVIOUS
  <2>1. IInv' /\ Quiet'
    BY NextIInv, NextQuiet DEF IInv
  <2>2. FlagFirst'
    BY NextFlagFirst DEF FlagInv
  <2>3. FlagStored' /\ IdNeverWithoutFlag'
    BY NextFlagStored
  <2> QED  BY <2>1, <2>2, <2>3 DEF FlagInv
<1>3. IInv /\ Quiet /\ FlagInv => IdNeverWithoutFlag
  BY DEF FlagInv
<1> QED  BY <1>1, <1>2, <1>3, PTL DEF Spec

-----------------------------------------------------------------------------
(* No null pointer reaches the advertisement.                                *)

NoFaults == Faults = {}

\* app_main leaves no device without an ID.
IdThere == Booted => ram[IdVar].own # "null" \/ nvs[IdVar] # Absent

\* Nobody writes the key between the two calls of nvs_get_str.
SizeKnown ==
    req.booted /\ task["host"].pc \in {"alloc", "get"}
      => task["host"].sz = Size[nvs[task["host"].i]]

\* So that no read fails, and the ID is in RAM when it is needed.
NothingLost ==
    req.booted =>
        /\ task["host"].pc \notin {"free", "null"}
        /\ IdVar \in Passed("host") => ram[IdVar].own # "null"
        /\ At("host", "data") => ram[InitVar].own # "null"

NullInv == nvsReady /\ IdThere /\ SizeKnown /\ NothingLost /\ NoNullDerefOnceBooted

LEMMA FaultFacts == NoFaults => NoLostWrite /\ "malloc" \notin Faults /\ "init" \notin Faults
                                /\ "flash" \notin Faults
BY DEF NoFaults, NoLostWrite

\* A null pointer is only dereferenced in ble_app_advertise.
LEMMA DerefInAdvertise ==
    ASSUME TypeOK, [Next]_vars, NoNullDerefOnceBooted, ~NoNullDerefOnceBooted'
    PROVE  AdvData /\ req.booted /\ "nullDeref" \in {k \in {"nullDeref"} :
                ram[InitVar].own = "null" \/ (Seen(ram[InitVar]) = TrueStr /\ ram[IdVar].own = "null")}
<1> USE DEF NoNullDerefOnceBooted
<1>1. /\ \A p : "nullDeref" \notin FreeMisuse(p) /\ "nullDeref" \notin ReadMisuse(p)
      /\ \A p, n : "nullDeref" \notin FillMisuse(p, n)
      /\ "nullDeref" \notin PrintMisuse
  BY SMTT(90) DEF FreeMisuse, ReadMisuse, FillMisuse, PrintMisuse
<1>2. ASSUME NEW t \in Tasks, ReadVariables(t)
      PROVE  FALSE
  BY <1>1, <1>2
  DEF ReadVariables, ReadOpen, ReadSize, ReadAlloc, ReadGet, ReadFree, ReadNull, Outcome
<1>3. ~MainStep
  BY <1>2, TaskFacts DEF MainStep, MainBoot, MainCheck, MainDefault
<1>4. ~OnSync /\ ~HostEvent
  BY DEF OnSync, HostEvent, GapEvent, GattAccess
<1>5. ~Respond /\ ~FillFree /\ ~FillDup /\ ~Mark /\ ~Store /\ ~LogTable /\ ~AdvName
  BY <1>1 DEF Respond, FillFree, FillDup, Mark, Store, LogTable, AdvName, Outcome
<1>6. ~Console
  BY DEF Console, SetNvs, DelNvs, EraseNvs, EraseInit, PrintMRD
<1>7. AdvData
  BY <1>2, <1>3, <1>4, <1>5, <1>6, TaskFacts DEF Next, Step, Callback, PowerCycle, vars
<1> QED  BY <1>1, <1>7 DEF AdvData, Outcome

LEMMA ReadVariablesLosesNothing ==
    ASSUME NoFaults, NoRemoval, IInv, Owned, Quiet, NullInv,
           ReadVariables("host"), ~Reboot, req.booted
    PROVE  SizeKnown' /\ NothingLost'
<1>a. PICK v \in Vars : v = task["host"].i
  BY TaskFacts DEF IInv
<1>0. /\ TypeOK /\ Steady /\ KeyThere /\ v = task["host"].i /\ ram[v] \in Pointers
      /\ "host" \in Tasks /\ IdVar \in Vars /\ "malloc" \notin Faults
      /\ \A w \in Vars \ {v} : ram'[w] = ram[w]
      /\ UNCHANGED <<nvs, nvsReady, req>> /\ Booted /\ nvsReady
      /\ Return("host") \notin Reading \cup {"data", "open"}
      /\ {"size", "alloc", "get", "free", "null"} \subseteq Reading
  BY <1>a, TaskFacts, VarsFacts, ReadVariablesMoves, FaultFacts
  DEF IInv, Quiet, NullInv, Owned, Exclusive, Return, Reading
<1>1. ASSUME task'["host"].pc \notin {"free", "null", "data"},
             Passed("host")' \subseteq Passed("host") \cup {v},
             v = IdVar => ram'[IdVar].own # "null" \/ IdVar \notin Passed("host")'
      PROVE  NothingLost'
  <2>1. IdVar \in Passed("host")' => ram'[IdVar].own # "null"
    BY <1>0, <1>1 DEF NullInv, NothingLost
  <2> QED  BY <1>1, <2>1 DEF NothingLost, At
<1>2. IdVar \notin Passed("host") \/ task["host"].pc \notin Reading
  <2>1. ~(IdVar < task["host"].i)
    BY <1>0, TaskFacts, TableAssumption DEF Vars, IdVar
  <2> QED  BY <2>1 DEF Passed
<1>3. CASE Moves("host", {"open"}, IF nvsReady THEN "size" ELSE Return("host"))
  <2>1. Passed("host")' = {} /\ task'["host"].pc = "size"
    BY <1>0, <1>3, PassedMoves DEF Moves
  <2> QED  BY <1>1, <2>1 DEF SizeKnown
<1>4. CASE nvs[v] = Absent /\ ram' = ram /\ Turns("host", {"size"}, "size", Return("host"))
  <2>1. /\ Passed("host")' \subseteq Passed("host") \cup {v}
        /\ task'["host"].pc \in {"size", Return("host")}
    BY <1>0, <1>4, PassedMoves DEF Turns
  <2>2. v = IdVar => ram'[IdVar].own # "null"
    BY <1>0, <1>4 DEF NullInv, IdThere
  <2> QED  BY <1>0, <1>1, <2>1, <2>2 DEF SizeKnown
<1>5. CASE Moves("host", {"size"}, "alloc") /\ task'["host"].sz = Size[nvs[v]]
  <2>1. Passed("host")' = Passed("host") /\ task["host"].pc \in Reading
    BY <1>0, <1>5, PassedMoves DEF Moves
  <2> QED  BY <1>0, <1>1, <1>2, <1>5, <2>1 DEF SizeKnown, Moves
<1>6. CASE Moves("host", {"alloc"}, "get") /\ task'["host"].sz = task["host"].sz
  <2>1. Passed("host")' = Passed("host") /\ task["host"].pc \in Reading
    BY <1>0, <1>6, PassedMoves DEF Moves
  <2> QED  BY <1>0, <1>1, <1>2, <1>6, <2>1 DEF NullInv, SizeKnown, Moves
<1>7. CASE ram' = (IF ram[v].own = "heap" THEN [ram EXCEPT ![v].val = nvs[v]] ELSE ram)
            /\ Turns("host", {"get"}, "size", Return("host"))
  <2>1. /\ Passed("host")' \subseteq Passed("host") \cup {v}
        /\ task["host"].pc = "get" /\ task'["host"].pc \in {"size", Return("host")}
    BY <1>0, <1>7, PassedMoves, SMTT(30) DEF Turns
  <2>2. ram'[v].own = "heap"
    BY <1>0, <1>7, <2>1 DEF Owned, Exclusive, At, TypeOK, Pointers
  <2> QED  BY <1>0, <1>1, <2>1, <2>2 DEF SizeKnown
<1>8. task["host"].pc \notin {"free", "null"}
  BY DEF NullInv, NothingLost
<1>9. CASE ~(nvs[v] # Absent /\ Size[nvs[v]] <= task["host"].sz) /\ Moves("host", {"get"}, "free")
  <2>1. task["host"].sz = Size[nvs[v]] /\ nvs[v] # Absent /\ task["host"].sz \in Nat
    BY <1>0, <1>9, TaskFacts DEF NullInv, SizeKnown, KeyThere, Moves, Reading
  <2> QED  BY <1>9, <2>1
<1> QED  BY <1>0, <1>3, <1>4, <1>5, <1>6, <1>7, <1>8, <1>9, HostReadCases

LEMMA NextIdThere ==
    ASSUME NoFaults, NoRemoval, IInv, Quiet, IdThere, nvsReady, [Next]_vars
    PROVE  IdThere'
<1> USE DEF IInv, Quiet
<1>0. "main" \in Tasks /\ IdVar \in Vars
  BY TaskFacts, VarsFacts
<1>1. CASE Reboot
  BY <1>1, RebootMoves DEF IdThere, Booted, At
<1>2. CASE Booted /\ ~Reboot
  BY <1>0, <1>2, KeptSomewhere, FaultFacts DEF IdThere
<1>3. CASE ~Booted /\ ~Reboot
  <2>1. CASE UNCHANGED vars
    BY <1>3, <2>1 DEF vars, IdThere, Booted, At
  <2>2. CASE HostStep
    BY <1>3, <2>2, HostMoves DEF IdThere, Booted, At
  <2>3. CASE Console
    BY <1>0, <1>3, <2>3, ConsoleMoves DEF IdThere, Booted, At
  <2>4. CASE ReadVariables("main")
    <3>1. task'["main"].pc \in Reading \cup {"check"}
      <4>1. Return("main") = "check"
        BY DEF Return
      <4> QED  BY <1>0, <1>3, <2>4, <4>1, ReadCases DEF Moves, Turns, Reading
    <3> QED  BY <3>1 DEF IdThere, Booted, At, Reading
  <2>5. CASE MainBoot
    BY <1>0, <2>5, GotoMoves DEF MainBoot, IdThere, Booted, At
  <2>6. CASE MainCheck
    <3>1. ram' = ram /\ (VariablesAreEmpty => task'["main"].pc = "defaults")
      BY <1>0, <2>6 DEF MainCheck, TypeOK
    <3> QED  BY <3>1 DEF VariablesAreEmpty, IdThere, Booted, At
  <2>7. CASE MainDefault
    <3>1. nvs' = [nvs EXCEPT ![task["main"].i] = DefaultValue[task["main"].i]]
      BY <2>7, FaultFacts DEF MainDefault, WriteDefault
    <3>2. task'["main"].pc = "done" => task["main"].i = IdVar
      BY <1>0, <2>7, LoopTurns DEF MainDefault, IdVar
    <3>3. DefaultValue[IdVar] # Absent
      BY <1>0, StringAssumption
    <3> QED  BY <1>0, <3>1, <3>2, <3>3 DEF IdThere, Booted, At, TypeOK
  <2> QED  BY <1>3, <2>1, <2>2, <2>3, <2>4, <2>5, <2>6, <2>7, Steps DEF MainStep
<1> QED  BY <1>1, <1>2, <1>3

LEMMA NextNothingLost ==
    ASSUME NoFaults, NoRemoval, NoSetNvs, IInv, Owned, Quiet, NullInv, [Next]_vars
    PROVE  SizeKnown' /\ NothingLost'
<1> USE DEF IInv, Quiet
<1>1. CASE UNCHANGED vars
  BY <1>1 DEF vars, NullInv, SizeKnown, NothingLost, Passed, At
<1>2. CASE Reboot
  BY <1>2, RebootMoves DEF SizeKnown, NothingLost, NoReq
<1>3. CASE MainStep /\ ~Reboot
  BY <1>3, MainMoves DEF Owned, Exclusive, SizeKnown, NothingLost
<1>4. CASE HostStep /\ ~Reboot
  <2>1. CASE ReadVariables("host")
    <3>1. CASE req.booted
      BY <1>4, <2>1, <3>1, ReadVariablesLosesNothing
    <3>2. CASE ~req.booted
      BY <1>4, <2>1, <3>2, ReadVariablesMoves, TaskFacts DEF SizeKnown, NothingLost
    <3> QED  BY <3>1, <3>2
  <2>2. CASE ~ReadVariables("host")
    <3>1. task'["host"].pc \notin Reading
      BY <1>4, <2>2, HostWritesText
    <3>2. IdVar \in Passed("host")' /\ req'.booted => ram'[IdVar].own # "null"
      <4>1. CASE Passed("host")' = {}
        BY <4>1
      <4>2. CASE Passed("host") = Vars /\ req' = req
        BY <1>4, <2>2, <4>2, HostNullsNothing, FaultFacts, VarsFacts DEF NullInv, NothingLost
      <4> QED  BY <1>4, <2>2, <4>1, <4>2, PassedAfter
    <3>3. At("host", "data")' => ram'[InitVar].own # "null"
      <4>1. task'["host"].pc = "data" => AdvName
        BY <1>4, <2>2, HostTurns DEF Moves, Turns
      <4>2. AdvName => ram' = [ram EXCEPT ![InitVar] = FlagOrDefault(ram[InitVar])]
        BY <1>4 DEF AdvName, Outcome
      <4> QED  BY <4>1, <4>2, VarsFacts DEF FlagOrDefault, Rodata, TypeOK, At
    <3> QED  BY <3>1, <3>2, <3>3 DEF SizeKnown, NothingLost, Reading
  <2> QED  BY <2>1, <2>2
<1> QED  BY <1>1, <1>2, <1>3, <1>4, ConsoleQuiet, Steps

\* NVS stays up.
LEMMA NextReady ==
    ASSUME NoFaults, NoRemoval, TypeOK, Steady, nvsReady, [Next]_vars
    PROVE  nvsReady'
<1>1. CASE Reboot
  BY <1>1, FaultFacts DEF Reboot
<1>2. CASE Console
  BY <1>2, <1>1 DEF Console, SetNvs, DelNvs, EraseNvs, EraseInit, PrintMRD, NoRemoval, Steady
<1> QED  BY <1>1, <1>2, Steps, MainMoves, HostMoves DEF vars

\* Every step keeps what ble_app_advertise needs, if no call fails.
LEMMA NextNullInv ==
    ASSUME NoFaults, NoRemoval, NoSetNvs, IInv, Owned, Quiet, NullInv, [Next]_vars
    PROVE  NullInv'
<1>1. nvsReady' /\ IdThere' /\ SizeKnown' /\ NothingLost'
  BY NextReady, NextIdThere, NextNothingLost DEF IInv, Quiet, NullInv
<1>2. NoNullDerefOnceBooted'
  <2> SUFFICES ASSUME ~NoNullDerefOnceBooted' PROVE FALSE
    OBVIOUS
  <2>1. /\ AdvData /\ req.booted
        /\ ram[InitVar].own = "null" \/ ram[IdVar].own = "null"
    BY DerefInAdvertise DEF IInv, NullInv
  <2>2. At("host", "data") /\ IdVar \in Passed("host")
    BY <2>1, VarsFacts DEF AdvData, At, Passed, Reading
  <2> QED  BY <2>1, <2>2 DEF NullInv, NothingLost
<1> QED  BY <1>1, <1>2 DEF NullInv

\* Whatever the payloads and wherever the power fails: as long as no call fails
\* and the console leaves NVS alone, ble_app_advertise never dereferences a null
\* flag or a null ID in a callback that began after the boot
\* (main/ble.c:160-183, main/myRemoteDevice.c:72-95, 163-173).
THEOREM AlwaysNoNullDeref ==
    ASSUME NoFaults, NoRemoval, NoSetNvs
    PROVE  Spec => []NoNullDerefOnceBooted
<1> DEFINE Inv == IInv /\ Owned /\ Quiet /\ NullInv
<1>1. Init => Inv
  <2>1. Init => NullInv
    BY DEF Init, NullInv, IdThere, SizeKnown, NothingLost, NoNullDerefOnceBooted, Booted, BootTask,
           At, Tasks, NoReq
  <2> QED  BY <2>1, InitIInv, InitOwned, InitQuiet
<1>2. Inv /\ [Next]_vars => Inv'
  <2> SUFFICES ASSUME Inv, [Next]_vars PROVE Inv'
    OBVIOUS
  <2>1. IInv' /\ Owned' /\ Quiet'
    BY NextIInv, NextOwned, NextQuiet DEF IInv
  <2> QED  BY <2>1, NextNullInv
<1>3. Inv => NoNullDerefOnceBooted
  BY SMTT(90) DEF NullInv
<1> QED  BY <1>1, <1>2, <1>3, PTL DEF Spec

-----------------------------------------------------------------------------
(* What a GATT write has set: in NVS once it is answered, and in the answer  *)
(* to a read. The operator may set keys all the while.                       *)

\* The ID is stored last, so that the next boot will not write the defaults.
AckedHasId == DOMAIN acked # {} /\ ~At("host", "store") => nvs[IdVar] # Absent

\* While app_main reads the table after a reset, nothing is lost.
NothingToDefault ==
    /\ At("main", "defaults") => DOMAIN acked = {}
    /\ ~Booted /\ DOMAIN acked # {} =>
         /\ ~At("host", "store") /\ ~idLoss
         /\ \A t \in Tasks : task[t].pc \in {"alloc", "get"} => task[t].sz = Size[nvs[task[t].i]]

\* fillVariblseFromJsonString has copied the keys it is through with.
LoadFilled ==
    req.booted => \A v \in DOMAIN req.load :
        At("host", "mark") \/ (task["host"].pc \in {"fill", "dup"} /\ v < task["host"].i)
          => ram[v].own = "heap" /\ ram[v].val = req.load[v]

\* writeVariablesToNvs has stored the keys it is through with, and has the rest.
StoreHolds ==
    At("host", "store") =>
        /\ task["host"].live
        /\ DOMAIN acked # {} => req.booted
        /\ \A v \in DOMAIN acked :
              IF v < task["host"].i THEN nvs[v] = acked[v]
              ELSE ram[v].own \in {"heap", "rodata"} /\ ram[v].val = acked[v]

\* readVariablesFromNvs has found the keys that the last write set.
AckedRead ==
    req.booted =>
        /\ task["host"].pc \in Reading \cup {"respond"} =>
             \A v \in DOMAIN acked : v \in Passed("host") => Seen(ram[v]) = acked[v]
        /\ task["host"].i \in DOMAIN acked =>
             /\ task["host"].pc \in {"alloc", "get"} => task["host"].sz = Size[nvs[task["host"].i]]
             /\ task["host"].pc \notin {"free", "null"}

AckInv == /\ nvsReady /\ IdThere /\ AckedHasId /\ AckedWriteDurable
          /\ NothingToDefault /\ LoadFilled /\ StoreHolds /\ AckedRead

\* A read of a key whose size is known loses nothing.
LEMMA ReadKeepsSize ==
    ASSUME NoFaults, TypeOK, Quiet, nvsReady, NEW t \in Tasks, ReadVariables(t), ~Reboot,
           task[t].pc \in {"alloc", "get"} => task[t].sz = Size[nvs[task[t].i]]
    PROVE  /\ idLoss' = idLoss \/ task[t].pc = "null"
           /\ task'[t].pc \in {"alloc", "get"} =>
                task'[t].sz = Size[nvs[task'[t].i]] /\ nvs' = nvs
           /\ task'[t].pc \in {"free", "null"} => task[t].pc \in {"free", "null"}
<1>0. /\ Steady /\ KeyThere /\ "malloc" \notin Faults /\ nvs' = nvs
      /\ Return(t) \notin Reading /\ task[t].sz \in Nat
  BY FaultFacts, ReadVariablesMoves, TaskFacts DEF Quiet, Return, Reading
<1>1. ~(~(nvs[task[t].i] # Absent /\ Size[nvs[task[t].i]] <= task[t].sz)
         /\ Moves(t, {"get"}, "free"))
  BY <1>0 DEF Moves, KeyThere, Reading
<1> QED  BY <1>0, <1>1, ReadCases DEF Moves, Turns, Reading

\* Nor does a step of the host task outside readVariablesFromNvs.
LEMMA HostNotesNothing ==
    ASSUME NoFaults, TypeOK, HostStep, ~ReadVariables("host"), ~Reboot
    PROVE  idLoss' = idLoss
<1>1. CASE FillDup
  <2>1. /\ idLoss' = (idLoss \/ (task["host"].i = IdVar
               /\ Heap(req.load[task["host"].i], Size[req.load[task["host"].i]]) = NullPtr))
    BY <1>1, FaultFacts DEF FillDup, StrDup
  <2>2. \A x, n : Heap(x, n) # NullPtr
    BY DEF Heap, NullPtr
  <2>3. idLoss \in BOOLEAN
    BY SMTT(30) DEF TypeOK
  <2> QED  BY <2>1, <2>2, <2>3, Zenon
<1>2. CASE ~FillDup
  BY <1>2
  DEF HostStep, OnSync, HostEvent, GapEvent, GattAccess, Callback, Respond, FillFree, Mark, Store,
      LogTable, AdvName, AdvData, Outcome, history
<1> QED  BY <1>1, <1>2

LEMMA RebootAck ==
    ASSUME TypeOK, Quiet, NoFaults, AckInv, Reboot
    PROVE  AckInv'
<1>1. /\ nvs' = nvs /\ nvsReady'
      /\ ~At("host", "store")' /\ ~Booted' /\ ~idLoss' /\ ~req'.booted /\ ~At("main", "defaults")'
      /\ \A t \in Tasks : task'[t].pc \notin {"alloc", "get"}
      /\ (acked' = acked /\ ~At("host", "store")) \/ DOMAIN acked' = {}
  <2>1. nvs' = nvs /\ nvsReady' /\ ~idLoss'
    BY RebootMoves, FaultFacts DEF Quiet, Steady, Reboot
  <2>2. /\ ~At("host", "store")' /\ ~Booted' /\ ~req'.booted /\ ~At("main", "defaults")'
        /\ \A t \in Tasks : task'[t].pc \notin {"alloc", "get"}
    BY RebootMoves, TaskFacts DEF Booted, At, NoReq
  <2>3. (acked' = acked /\ ~At("host", "store")) \/ DOMAIN acked' = {}
    <3>1. acked' = IF At("host", "store") THEN <<>> ELSE acked
      BY RebootMoves
    <3> QED  BY <3>1
  <2> QED  BY <2>1, <2>2, <2>3
<1> QED  BY <1>1 DEF AckInv, IdThere, AckedHasId, AckedWriteDurable, NothingToDefault, LoadFilled,
                     StoreHolds, AckedRead

\* app_main: it writes no default over what a write has set.
LEMMA MainAck ==
    ASSUME NoFaults, IInv, Owned, Quiet, IdInv, AckInv, MainStep, ~Reboot
    PROVE  /\ AckedHasId' /\ AckedWriteDurable' /\ NothingToDefault'
           /\ LoadFilled' /\ StoreHolds' /\ AckedRead'
<1> USE DEF IInv
<1>0. /\ "main" \in Tasks /\ "host" \in Tasks /\ Tasks = {"main", "host"}
      /\ ~Booted /\ task'["host"] = task["host"] /\ req' = req /\ acked' = acked
      /\ ~req.booted /\ Steady /\ KeyThere
  BY TaskFacts, MainMoves DEF Owned, Exclusive, Quiet
<1>1. LoadFilled' /\ AckedRead'
  BY <1>0 DEF LoadFilled, AckedRead
<1>2. CASE DOMAIN acked = {}
  BY <1>0, <1>1, <1>2
  DEF AckInv, AckedHasId, AckedWriteDurable, NothingToDefault, StoreHolds, At
<1>3. CASE DOMAIN acked # {}
  <2>1. ~At("host", "store") /\ ~idLoss /\ nvs' = nvs /\ nvs[IdVar] # Absent
    BY <1>0, <1>3, MainMoves DEF AckInv, NothingToDefault, AckedHasId
  <2>2. AckedHasId' /\ AckedWriteDurable' /\ StoreHolds'
    BY <1>0, <2>1 DEF AckInv, AckedHasId, AckedWriteDurable, StoreHolds, At
  <2>3. task["host"].pc \in {"alloc", "get"} => task["host"].sz = Size[nvs[task["host"].i]]
    BY <1>0, <1>3 DEF AckInv, NothingToDefault
  <2>4. CASE ReadVariables("main")
    <3>1. task["main"].pc \in {"alloc", "get"} => task["main"].sz = Size[nvs[task["main"].i]]
      BY <1>0, <1>3 DEF AckInv, NothingToDefault
    <3>2. idLoss' = idLoss
      <4>1. CASE task["main"].pc = "null"
        BY <1>0, <2>4, <4>1, ReadCases DEF Moves, Turns
      <4> QED  BY <1>0, <2>4, <3>1, <4>1, ReadKeepsSize, SMTT(30) DEF AckInv
    <3>3. /\ task'["main"].pc \in {"alloc", "get"} => task'["main"].sz = Size[nvs[task'["main"].i]]
      BY <1>0, <2>4, <3>1, ReadKeepsSize, SMTT(30) DEF AckInv
    <3>4. task'["main"].pc # "defaults"
      <4>1. Return("main") = "check"
        BY DEF Return
      <4> QED  BY <1>0, <2>4, <4>1, ReadCases DEF Moves, Turns
    <3>5. NothingToDefault'
      BY <1>0, <2>1, <2>3, <3>2, <3>3, <3>4 DEF NothingToDefault, At
    <3> QED  BY <1>1, <2>2, <3>5
  <2>5. CASE MainBoot \/ MainCheck \/ MainDefault
    <3>1. idLoss' = idLoss /\ task["main"].pc # "defaults"
      BY <1>3, <2>5 DEF MainBoot, MainCheck, MainDefault, history, AckInv, NothingToDefault, At
    <3>2. MainCheck => ~VariablesAreEmpty
      BY <2>1 DEF MainCheck, VariablesAreEmpty, IdInv, IdLoaded
    <3>3. task'["main"].pc \in {"open", "done"}
      BY <1>0, <2>5, <3>1, <3>2 DEF MainBoot, MainCheck, MainDefault, Goto, At, TypeOK
    <3>4. NothingToDefault'
      BY <1>0, <2>1, <2>3, <3>1, <3>3 DEF NothingToDefault, At
    <3> QED  BY <1>1, <2>2, <3>4
  <2> QED  BY <2>4, <2>5 DEF MainStep
<1> QED  BY <1>2, <1>3

\* The operator takes back what he changes.
LEMMA ConsoleAck ==
    ASSUME NoRemoval, IInv, Quiet, AckInv, Console, ~Reboot
    PROVE  /\ AckedHasId' /\ AckedWriteDurable' /\ NothingToDefault'
           /\ LoadFilled' /\ StoreHolds' /\ AckedRead'
<1> USE DEF IInv
<1>1. PICK w \in Vars, x \in SetValues : SetNvs(w, x)
  BY DEF Console, PrintMRD, DelNvs, EraseNvs, EraseInit, NoRemoval, Quiet, Steady
<1>2. /\ Booted /\ UNCHANGED <<ram, task, req>>
      /\ DOMAIN acked' = DOMAIN acked \ {w}
      /\ \A v \in DOMAIN acked' : v \in DOMAIN acked /\ acked'[v] = acked[v] /\ nvs'[v] = nvs[v]
  BY <1>1 DEF SetNvs, TypeOK
<1>3. nvs[IdVar] # Absent => nvs'[IdVar] # Absent
  BY <1>1, VarsFacts, EnvironmentAssumption, StringAssumption DEF SetNvs, TypeOK
<1>4. Passed("host")' = Passed("host")
  BY <1>2 DEF Passed
<1>5. AckedHasId' /\ AckedWriteDurable' /\ NothingToDefault'
  BY <1>2, <1>3 DEF AckInv, AckedHasId, AckedWriteDurable, NothingToDefault, At, Booted
<1>6. LoadFilled' /\ StoreHolds'
  BY <1>2 DEF AckInv, LoadFilled, StoreHolds, At
<1>7. AckedRead'
  BY <1>2, <1>4 DEF AckInv, AckedRead
<1> QED  BY <1>5, <1>6, <1>7

\* readVariablesFromNvs in the host task finds what the last write has set.
LEMMA HostReadAck ==
    ASSUME NoFaults, IInv, Owned, Quiet, AckInv, ReadVariables("host"), ~Reboot
    PROVE  /\ AckedHasId' /\ AckedWriteDurable' /\ NothingToDefault'
           /\ LoadFilled' /\ StoreHolds' /\ AckedRead'
<1>a. PICK v \in Vars : v = task["host"].i
  BY TaskFacts DEF IInv
<1>0. /\ "host" \in Tasks /\ "main" \in Tasks /\ Tasks = {"main", "host"} /\ v = task["host"].i
      /\ TypeOK /\ Steady /\ KeyThere /\ nvsReady /\ ram[v] \in Pointers
      /\ "malloc" \notin Faults
      /\ UNCHANGED <<nvs, nvsReady, req, acked>> /\ task'["main"] = task["main"]
      /\ \A w \in Vars \ {v} : ram'[w] = ram[w]
      /\ task["host"].pc \in Reading \cup {"open"}
      /\ {"size", "alloc", "get", "free", "null"} \subseteq Reading
      /\ Return("host") \in {"respond", "fill", "name"}
      /\ DOMAIN acked \subseteq Vars /\ \A w \in DOMAIN acked : acked[w] \in Strings
  <2>1. TypeOK /\ Steady /\ KeyThere /\ nvsReady /\ "malloc" \notin Faults
    BY FaultFacts DEF IInv, Quiet, AckInv
  <2>2. Return("host") \in {"respond", "fill", "name"}
    BY DEF Return
  <2>3. DOMAIN acked \subseteq Vars /\ \A w \in DOMAIN acked : acked[w] \in Strings
    BY <2>1 DEF TypeOK
  <2>4. /\ UNCHANGED <<nvs, nvsReady, req, acked>> /\ task'["main"] = task["main"]
        /\ \A w \in Vars \ {task["host"].i} : ram'[w] = ram[w]
        /\ task["host"].pc \in Reading \cup {"open"}
    BY <2>1, HostReadMoves, SMTT(30)
  <2> QED  BY <1>a, <2>1, <2>2, <2>3, <2>4, TaskFacts DEF Reading
<1>1. ~At("host", "store") /\ ~At("host", "store")' /\ task'["host"].pc \notin {"dup", "mark", "store"}
      /\ (task'["host"].pc = "fill" => task'["host"].i = 1)
  BY <1>0, ReadCases, ZenonT(40) DEF Moves, Turns, At, Reading, Steady, FromFirst
<1>2. AckedHasId' /\ AckedWriteDurable' /\ StoreHolds'
  BY <1>0, <1>1 DEF AckInv, AckedHasId, AckedWriteDurable, StoreHolds
<1>3. LoadFilled'
  <2>1. \A w \in DOMAIN req.load : ~(w < 1)
    BY <1>0, WrittenType, TableAssumption DEF Vars
  <2> QED  BY <1>0, <1>1, <2>1 DEF LoadFilled, At
<1>4. NothingToDefault'
  <2>1. CASE ~Booted /\ DOMAIN acked # {}
    <3>1. /\ ~idLoss
          /\ \A t \in Tasks : task[t].pc \in {"alloc", "get"} => task[t].sz = Size[nvs[task[t].i]]
      BY <2>1 DEF AckInv, NothingToDefault
    <3>2. idLoss' = idLoss
      <4>1. CASE task["host"].pc = "null"
        BY <1>0, <4>1, ReadCases DEF Moves, Turns
      <4> QED  BY <1>0, <3>1, <4>1, ReadKeepsSize, SMTT(30)
    <3>3. task'["host"].pc \in {"alloc", "get"} => task'["host"].sz = Size[nvs[task'["host"].i]]
      BY <1>0, <3>1, ReadKeepsSize
    <3> QED  BY <1>0, <1>1, <2>1, <3>1, <3>2, <3>3 DEF AckInv, NothingToDefault, At
  <2>2. CASE Booted \/ DOMAIN acked = {}
    BY <1>0, <2>2 DEF AckInv, NothingToDefault, Booted, At
  <2> QED  BY <2>1, <2>2
<1>5. ASSUME req.booted PROVE AckedRead'
  <2>1. \A w \in DOMAIN acked : nvs[w] = acked[w] /\ nvs[w] # Absent
    BY <1>0, <1>1, StringAssumption DEF AckInv, AckedWriteDurable
  <2>2. \A w \in DOMAIN acked : w \in Passed("host") => Seen(ram[w]) = acked[w]
    BY <1>0, <1>5 DEF AckInv, AckedRead, Passed
  <2>3. v \notin Passed("host")
    BY <1>0, VarsFacts DEF Passed
  <2>4. ASSUME Passed("host")' \subseteq Passed("host") \cup {v},
               v \in DOMAIN acked => Seen(ram'[v]) = acked[v] \/ v \notin Passed("host")',
               task'["host"].i \in DOMAIN acked =>
                 /\ task'["host"].pc \in {"alloc", "get"} => task'["host"].sz = Size[nvs[task'["host"].i]]
                 /\ task'["host"].pc \notin {"free", "null"}
        PROVE  AckedRead'
    BY <1>0, <2>2, <2>4 DEF AckedRead
  <2>5. task["host"].pc \notin {"free", "null"} \/ v \notin DOMAIN acked
    BY <1>0, <1>5 DEF AckInv, AckedRead
  <2>6. CASE Moves("host", {"open"}, IF nvsReady THEN "size" ELSE Return("host"))
    <3>1. Passed("host")' = {} /\ task'["host"].pc = "size"
      BY <1>0, <2>6, PassedMoves DEF Moves
    <3> QED  BY <2>4, <3>1
  <2>7. CASE /\ ram' = ram \/ ram' = [ram EXCEPT ![v] = NullPtr]
             /\ \/ Turns("host", {"size"}, "size", Return("host")) /\ nvs[v] = Absent
                \/ Turns("host", {"null"}, "size", Return("host"))
    <3>1. /\ Passed("host")' \subseteq Passed("host") \cup {v}
          /\ task'["host"].pc \in {"size", Return("host")}
      BY <1>0, <2>7, PassedMoves DEF Turns
    <3>2. v \notin DOMAIN acked
      BY <1>0, <2>1, <2>5, <2>7 DEF Turns
    <3> QED  BY <1>0, <2>4, <3>1, <3>2
  <2>8. CASE ram' = (IF ram[v].own = "heap" THEN [ram EXCEPT ![v].val = nvs[v]] ELSE ram)
              /\ Turns("host", {"get"}, "size", Return("host"))
    <3>1. /\ Passed("host")' \subseteq Passed("host") \cup {v} /\ task["host"].pc = "get"
          /\ task'["host"].pc \in {"size", Return("host")}
      BY <1>0, <2>8, PassedMoves DEF Turns
    <3>2. ram[v].own = "heap"
      BY <1>0, <1>5, <3>1 DEF Owned, Exclusive, At
    <3>3. ram'[v].own = "heap" /\ ram'[v].val = nvs[v]
      BY <1>0, <2>8, <3>2 DEF TypeOK, Pointers
    <3> QED  BY <1>0, <2>1, <2>4, <3>1, <3>3 DEF Seen
  <2>9. CASE \E from, to \in Reading : Moves("host", {from}, to)
    <3>1. Passed("host")' = Passed("host") /\ task'["host"].i = v
      BY <1>0, <2>9, PassedMoves DEF Moves
    <3>2. v \in DOMAIN acked =>
            /\ task["host"].pc \in {"alloc", "get"} => task["host"].sz = Size[nvs[task["host"].i]]
            /\ task["host"].pc \notin {"free", "null"}
      BY <1>0, <1>5 DEF AckInv, AckedRead
    <3>3. v \in DOMAIN acked =>
            /\ task'["host"].pc \in {"alloc", "get"} => task'["host"].sz = Size[nvs[task'["host"].i]]
            /\ task'["host"].pc \notin {"free", "null"}
      BY <1>0, <3>2, ReadKeepsSize
    <3> QED  BY <1>0, <2>3, <2>4, <3>1, <3>3
  <2> QED  BY <1>0, <2>6, <2>7, <2>8, <2>9, ReadCases
<1>6. AckedRead'
  BY <1>0, <1>5 DEF AckedRead
<1> QED  BY <1>2, <1>3, <1>4, <1>6

\* The copies that fillVariblseFromJsonString makes.
LEMMA FillAck ==
    ASSUME NoFaults, IInv, AckInv, FillFree \/ FillDup, ~Reboot
    PROVE  LoadFilled'
<1> DEFINE L == DOMAIN req.load
<1>a. PICK w \in Vars : w = task["host"].i
  BY TaskFacts DEF IInv
<1>b. /\ NumVars \in Nat /\ Vars \subseteq Nat /\ \A v \in Vars : v <= NumVars
  BY TableAssumption DEF Vars
<1>c. TypeOK /\ req' = req /\ task["host"].pc \in {"fill", "dup"}
  BY DEF IInv, FillFree, FillDup, Outcome, At
<1>d. L \subseteq Vars
  BY <1>c, WrittenType
<1>e. \A v \in Vars \ {w} : ram'[v] = ram[v]
  <2>1. \/ ram' = ram
        \/ \E p : ram' = [ram EXCEPT ![w] = p]
    BY <1>a DEF FillFree, FillDup, Outcome
  <2> QED  BY <1>c, <2>1 DEF TypeOK
<1>0. /\ TypeOK /\ w = task["host"].i /\ w \in Nat /\ L \subseteq Vars /\ L \subseteq Nat /\ req' = req
      /\ NumVars \in Nat /\ \A v \in Vars : v <= NumVars
      /\ task["host"].pc \in {"fill", "dup"}
      /\ \A v \in Vars \ {w} : ram'[v] = ram[v]
  BY <1>a, <1>b, <1>c, <1>d, <1>e
<1>1. SUFFICES ASSUME req.booted, NEW v \in L,
                      task'["host"].pc = "mark" \/ (task'["host"].pc \in {"fill", "dup"} /\ v < task'["host"].i)
               PROVE  ram'[v].own = "heap" /\ ram'[v].val = req.load[v]
  BY <1>0 DEF LoadFilled, At
<1>2. v < w => ram[v].own = "heap" /\ ram[v].val = req.load[v]
  BY <1>0, <1>1 DEF AckInv, LoadFilled
<1>3. CASE Moves("host", {"fill"}, "dup")
  BY <1>0, <1>1, <1>2, <1>3 DEF Moves
<1>4. CASE Turns("host", {"fill", "dup"}, "fill", "mark")
  <2>1. v < w \/ v = w
    <3>1. CASE w = NumVars
      BY <1>0, <3>1
    <3>2. CASE w < NumVars /\ task'["host"].pc = "fill" /\ task'["host"].i = w + 1
      BY <1>0, <1>1, <3>2
    <3> QED  BY <1>0, <1>4, <3>1, <3>2 DEF Turns
  <2>2. CASE v < w
    BY <1>0, <1>2, <2>2, SMTT(30)
  <2>3. CASE v = w
    <3>1. FillDup
      BY <1>0, <1>1, <2>3, <1>4, SMTT(30) DEF FillFree, Outcome, Goto, Turns, TypeOK, Tasks
    <3>2. ram' = [ram EXCEPT ![w] = Heap(req.load[w], Size[req.load[w]])]
      BY <1>0, <3>1, FaultFacts DEF FillDup, StrDup
    <3> QED  BY <1>0, <2>3, <3>2 DEF Heap, TypeOK
  <2> QED  BY <2>1, <2>2, <2>3
<1>5. FillFree => Moves("host", {"fill"}, "dup") \/ Turns("host", {"fill"}, "fill", "mark")
  BY <1>0, TaskFacts, GotoMoves, LoopTurns DEF FillFree, Outcome, Moves, Turns, At
<1>6. FillDup => Turns("host", {"dup"}, "fill", "mark")
  BY <1>0, TaskFacts, LoopTurns DEF FillDup, Turns, At
<1> QED  BY <1>3, <1>4, <1>5, <1>6 DEF Turns

\* One turn of writeVariablesToNvs.
LEMMA StoreAck ==
    ASSUME NoFaults, IInv, Owned, AckInv, Store, ~Reboot
    PROVE  AckedHasId' /\ AckedWriteDurable' /\ StoreHolds'
<1>a. PICK w \in Vars : w = task["host"].i
  BY TaskFacts DEF IInv
<1>b. NumVars \in Nat /\ Vars \subseteq Nat /\ \A v \in Vars : v <= NumVars
  BY TableAssumption DEF Vars
<1>c. /\ TypeOK /\ task["host"].pc = "store" /\ UNCHANGED <<nvsReady, ram, req, acked>>
  BY DEF IInv, Store, Outcome, At, history
<1>d. task["host"].live /\ ram[w] \in Pointers /\ DOMAIN acked \subseteq Vars
  BY <1>a, <1>c DEF AckInv, StoreHolds, At, TypeOK
<1>e. Turns("host", {"store"}, "store", "print")
  BY <1>c, TaskFacts, LoopTurns DEF IInv, Store, Outcome, Turns
<1>0. /\ TypeOK /\ w = task["host"].i /\ w \in Nat /\ ram[w] \in Pointers
      /\ task["host"].pc = "store" /\ task["host"].live
      /\ DOMAIN acked \subseteq Vars /\ DOMAIN acked \subseteq Nat /\ NumVars \in Nat
      /\ \A v \in Vars : v <= NumVars
      /\ UNCHANGED <<nvsReady, ram, req, acked>>
      /\ Turns("host", {"store"}, "store", "print")
  BY <1>a, <1>b, <1>c, <1>d, <1>e
<1>1. /\ ram[w].own # "null" => nvs' = [nvs EXCEPT ![w] = Seen(ram[w])]
      /\ ram[w].own = "null" => nvs' = nvs
  BY <1>0, FaultFacts DEF Store, Outcome, WrittenBack, Usable, AckInv
<1>2. \A v \in DOMAIN acked :
        /\ v < w \/ v = w => nvs'[v] = acked[v]
        /\ w < v => ram[v].own \in {"heap", "rodata"} /\ ram[v].val = acked[v]
  <2> SUFFICES ASSUME NEW v \in DOMAIN acked
               PROVE  /\ v < w \/ v = w => nvs'[v] = acked[v]
                      /\ w < v => ram[v].own \in {"heap", "rodata"} /\ ram[v].val = acked[v]
    OBVIOUS
  <2>1. CASE v < w
    <3>1. nvs[v] = acked[v] /\ v # w /\ ~(w < v)
      BY <1>0, <2>1 DEF AckInv, StoreHolds, At
    <3> QED  BY <1>0, <1>1, <3>1 DEF TypeOK
  <2>2. CASE ~(v < w)
    <3>1. ram[v].own \in {"heap", "rodata"} /\ ram[v].val = acked[v]
      BY <1>0, <2>2 DEF AckInv, StoreHolds, At
    <3>2. v = w => nvs'[v] = acked[v]
      BY <1>0, <1>1, <3>1 DEF TypeOK, Seen
    <3> QED  BY <2>2, <3>1, <3>2
  <2> QED  BY <2>1, <2>2
<1>3. CASE w < NumVars /\ task'["host"].pc = "store" /\ task'["host"].i = w + 1
           /\ task'["host"].live = task["host"].live
  <2>1. DOMAIN acked # {} => req.booted
    BY <1>0 DEF AckInv, StoreHolds, At
  <2>2. \A v \in DOMAIN acked : (v < w + 1 <=> v < w \/ v = w) /\ (~(v < w + 1) => w < v)
    <3> SUFFICES ASSUME NEW v \in DOMAIN acked
                 PROVE  (v < w + 1 <=> v < w \/ v = w) /\ (~(v < w + 1) => w < v)
      OBVIOUS
    <3>1. v \in Nat /\ w \in Nat
      BY <1>0
    <3> QED  BY <3>1
  <2> QED  BY <1>0, <1>2, <1>3, <2>1, <2>2 DEF AckedHasId, AckedWriteDurable, StoreHolds, At
<1>4. CASE w = NumVars /\ task'["host"].pc = "print"
  <2>1. AckedWriteDurable'
    <3>1. \A v \in DOMAIN acked : v < w \/ v = w
      <4> SUFFICES ASSUME NEW v \in DOMAIN acked PROVE v < w \/ v = w
        OBVIOUS
      <4>1. v \in Nat /\ w \in Nat /\ v <= w
        BY <1>0, <1>4
      <4> QED  BY <4>1
    <3> QED  BY <1>0, <1>2, <3>1 DEF AckedWriteDurable
  <2>2. AckedHasId'
    <3>1. DOMAIN acked # {} => Booted
      BY <1>0 DEF AckInv, StoreHolds, At, Owned, Exclusive
    <3>2. Seen(ram[w]) # Absent
      BY <1>0, PointerFacts, StringAssumption
    <3> QED  BY <1>0, <1>1, <1>4, <3>1, <3>2 DEF AckInv, IdThere, AckedHasId, IdVar, TypeOK
  <2> QED  BY <1>4, <2>1, <2>2 DEF StoreHolds, At
<1> QED  BY <1>0, <1>3, <1>4 DEF Turns

\* The flag is set, and what is to be stored is known.
LEMMA MarkAck ==
    ASSUME IInv, Quiet, AckInv, Mark
    PROVE  StoreHolds' /\ task'["host"].pc = "store" /\ req' = req
           /\ (~req.booted => DOMAIN acked' = {})
<1>0. /\ TypeOK /\ "host" \in Tasks /\ InitVar \in Vars /\ task["host"].pc = "mark"
      /\ task["host"].i = 1 /\ nvsReady /\ req' = req
      /\ ram' = IF req.char = "uninitialized" THEN [ram EXCEPT ![InitVar] = Rodata(TrueStr)] ELSE ram
      /\ acked' = IF req.booted THEN Written ELSE <<>>
      /\ task' = [task EXCEPT !["host"] = [task["host"] EXCEPT !.pc = "store", !.live = nvsReady]]
  BY TaskFacts, VarsFacts DEF IInv, Quiet, Steady, FromFirst, AckInv, Mark, At, Reading
<1>1. task'["host"].pc = "store" /\ task'["host"].i = 1 /\ task'["host"].live
  BY <1>0, TaskFacts DEF TypeOK
<1>2. ~req.booted => DOMAIN acked' = {}
  BY <1>0
<1>3. ASSUME req.booted, NEW v \in DOMAIN Written
      PROVE  ~(v < 1) /\ ram'[v].own \in {"heap", "rodata"} /\ ram'[v].val = Written[v]
  <2>1. v \in Vars /\ ~(v < 1)
    BY <1>0, <1>3, WrittenType, TableAssumption DEF Vars
  <2>2. CASE v = InitVar /\ req.char = "uninitialized"
    BY <1>0, <2>1, <2>2 DEF Written, Rodata, TypeOK
  <2>3. CASE ~(v = InitVar /\ req.char = "uninitialized")
    <3>1. v \in DOMAIN req.load /\ Written[v] = req.load[v]
      BY <1>3, <2>3 DEF Written
    <3>2. ram[v].own = "heap" /\ ram[v].val = req.load[v]
      BY <1>0, <1>3, <3>1 DEF AckInv, LoadFilled, At
    <3>3. ram'[v] = ram[v]
      BY <1>0, <2>1, <2>3 DEF TypeOK
    <3> QED  BY <2>1, <3>1, <3>2, <3>3
  <2> QED  BY <2>2, <2>3
<1>4. CASE req.booted
  BY <1>0, <1>1, <1>3, <1>4 DEF StoreHolds
<1>5. CASE ~req.booted
  BY <1>0, <1>1, <1>2, <1>5 DEF StoreHolds
<1> QED  BY <1>0, <1>1, <1>2, <1>4, <1>5

\* The rest of the host task.
LEMMA HostAck ==
    ASSUME NoFaults, IInv, Owned, Quiet, AckInv, HostStep, ~ReadVariables("host"), ~Reboot
    PROVE  /\ AckedHasId' /\ AckedWriteDurable' /\ NothingToDefault'
           /\ LoadFilled' /\ StoreHolds' /\ AckedRead'
<1> USE DEF IInv
<1>0. /\ "host" \in Tasks /\ "main" \in Tasks /\ Tasks = {"main", "host"}
      /\ task'["main"] = task["main"] /\ idLoss' = idLoss
      /\ nvs' = nvs \/ Store
      /\ task'["host"].pc \notin Reading \cup {"respond"}
  BY TaskFacts, HostMoves, HostNotesNothing, HostWritesText, HostTurns, SMTT(30) DEF Moves, Turns
<1>1. acked' = acked \/ Mark
  BY DEF HostStep, OnSync, HostEvent, GapEvent, GattAccess, Callback, Respond, FillFree, FillDup, Store,
         LogTable, AdvName, AdvData, Outcome, history
<1>2. AckedRead'
  BY <1>0 DEF AckedRead, Reading
<1>3. NothingToDefault'
  <2>1. CASE ~Booted
    <3>1. ~req.booted
      BY <2>1 DEF Owned, Exclusive
    <3>2. Mark => DOMAIN acked' = {}
      BY <3>1, MarkAck
    <3>3. CASE DOMAIN acked' = {}
      BY <3>3 DEF NothingToDefault
    <3>4. CASE acked' = acked /\ DOMAIN acked # {} /\ ~Mark
      <4>1. /\ ~At("host", "store") /\ ~idLoss /\ nvs' = nvs /\ ~At("main", "defaults")
            /\ \A t \in Tasks : task[t].pc \in {"alloc", "get"} => task[t].sz = Size[nvs[task[t].i]]
        BY <1>0, <2>1, <3>4 DEF AckInv, NothingToDefault, Store
      <4>2. ~At("host", "store")'
        BY <3>4, <4>1, HostTurns DEF Moves, Turns, At
      <4> QED  BY <1>0, <4>1, <4>2 DEF NothingToDefault, At, Reading
    <3> QED  BY <1>1, <3>2, <3>3, <3>4
  <2>2. CASE Booted
    BY <1>0, <2>2 DEF NothingToDefault, Booted, At
  <2> QED  BY <2>1, <2>2
<1>4. CASE Mark
  <2>1. AckedHasId' /\ AckedWriteDurable' /\ LoadFilled'
    BY <1>4, MarkAck DEF AckedHasId, AckedWriteDurable, LoadFilled, At
  <2> QED  BY <1>2, <1>3, <1>4, <2>1, MarkAck
<1>5. CASE Store
  <2>1. LoadFilled'
    <3>1. task'["host"].pc \in {"store", "print"}
      BY <1>0, <1>5, LoopMoves DEF Store, Outcome
    <3> QED  BY <3>1 DEF LoadFilled, At
  <2> QED  BY <1>2, <1>3, <1>5, <2>1, StoreAck
<1>6. CASE ~Mark /\ ~Store
  <2>1. nvs' = nvs /\ acked' = acked /\ task["host"].pc # "store" /\ task'["host"].pc # "store"
    BY <1>0, <1>1, <1>6, HostTurns DEF Moves, Turns
  <2>2. AckedHasId' /\ AckedWriteDurable' /\ StoreHolds'
    BY <2>1 DEF AckInv, AckedHasId, AckedWriteDurable, StoreHolds, At
  <2>3. LoadFilled'
    <3>1. CASE FillFree \/ FillDup
      BY <3>1, FillAck
    <3>2. CASE ~FillFree /\ ~FillDup
      <4>1. task'["host"].pc \notin {"fill", "dup", "mark"}
        BY <1>6, <3>2, HostTurns DEF Moves, Turns
      <4> QED  BY <4>1 DEF LoadFilled, At
    <3> QED  BY <3>1, <3>2
  <2> QED  BY <1>2, <1>3, <2>2, <2>3
<1> QED  BY <1>4, <1>5, <1>6

LEMMA NextAck ==
    ASSUME NoFaults, NoRemoval, IInv, Owned, Quiet, IdInv, AckInv, [Next]_vars
    PROVE  AckInv'
<1> USE DEF IInv
<1>0. nvsReady' /\ IdThere' /\ "host" \in Tasks
  BY NextReady, NextIdThere, TaskFacts DEF Quiet, AckInv
<1>1. CASE UNCHANGED vars
  <2>1. AckedHasId' /\ AckedWriteDurable' /\ NothingToDefault'
    BY <1>1 DEF vars, AckInv, AckedHasId, AckedWriteDurable, NothingToDefault, At, Booted
  <2>2. LoadFilled' /\ StoreHolds' /\ AckedRead'
    BY <1>1 DEF vars, AckInv, LoadFilled, StoreHolds, AckedRead, At, Passed
  <2> QED  BY <1>0, <2>1, <2>2 DEF AckInv
<1>2. CASE Reboot
  BY <1>2, RebootAck
<1>3. CASE MainStep /\ ~Reboot
  BY <1>0, <1>3, MainAck DEF AckInv
<1>4. CASE HostStep /\ ~Reboot
  BY <1>0, <1>4, HostReadAck, HostAck DEF AckInv
<1>5. CASE Console /\ ~Reboot
  BY <1>0, <1>5, ConsoleAck DEF AckInv
<1> QED  BY <1>1, <1>2, <1>3, <1>4, <1>5, Steps

LEMMA AlwaysAckInv ==
    ASSUME NoFaults, NoRemoval
    PROVE  Spec => [](IInv /\ AckInv)
<1> DEFINE Inv == IInv /\ Owned /\ Quiet /\ IdInv /\ AckInv
<1>1. Init => Inv
  <2>1. Init => AckInv
    BY DEF Init, AckInv, IdThere, AckedHasId, AckedWriteDurable, NothingToDefault, LoadFilled,
           StoreHolds, AckedRead, Booted, BootTask, At, Tasks, NoReq
  <2>2. Init => IdInv
    BY DEF Init, IdInv, ConsoleWaits, HandleOpen, FailureNoted, IdLoaded, BootTask, Reading, At, Tasks
  <2> QED  BY <2>1, <2>2, InitIInv, InitOwned, InitQuiet
<1>2. Inv /\ [Next]_vars => Inv'
  <2> SUFFICES ASSUME Inv, [Next]_vars PROVE Inv'
    OBVIOUS
  <2> QED  BY NextIInv, NextOwned, NextQuiet, NextIdInv, NextAck DEF IInv
<1> QED  BY <1>1, <1>2, PTL DEF Spec

\* Whatever the payloads and wherever the power fails: as long as no call fails
\* and the operator removes no key, what the last GATT write has set, and the
\* operator has not changed since, is in NVS before the write is answered and
\* stays there across resets (main/ble.c:34-38, 76-79;
\* main/myRemoteDevice.c:97-104, 117-142).
THEOREM AlwaysDurable == ASSUME NoFaults, NoRemoval PROVE Spec => []AckedWriteDurable
<1>1. AckInv => AckedWriteDurable
  BY DEF AckInv
<1> QED  BY <1>1, AlwaysAckInv, PTL

\* Under the same assumptions a GATT read answers what the last acknowledged
\* write has set (main/ble.c:6-16, 48-58; main/myRemoteDevice.c:72-95).
THEOREM AlwaysReadBack == ASSUME NoFaults, NoRemoval PROVE Spec => []ReadBack
<1>1. IInv /\ AckInv => ReadBack
  <2> SUFFICES ASSUME IInv, AckInv, At("host", "respond"), req.booted, NEW v \in DOMAIN acked
               PROVE  Seen(ram[v]) = acked[v]
    BY DEF ReadBack
  <2>1. v \in Passed("host")
    BY DEF IInv, TypeOK, Passed, At, Reading
  <2> QED  BY <2>1 DEF AckInv, AckedRead, At
<1> QED  BY <1>1, AlwaysAckInv, PTL
-----------------------------------------------------------------------------
(* The advertisement: it carries what NVS held when the table was read, and  *)
(* whoever changes NVS since advertises again or takes `fresh' back.         *)

NoStarvation == "malloc" \notin Faults /\ "init" \notin Faults

\* What the host task does for which callback.
JobAt ==
    /\ task["host"].pc \in {"presync", "idle"} => req.job = "none"
    /\ task["host"].pc = "respond" => req.job = "read"
    /\ task["host"].pc \in {"fill", "dup", "mark", "store", "print"} => req.job = "write"
    /\ task["host"].pc \in {"name", "data"} => req.job = "adv"
    /\ task["host"].pc \in Reading \cup {"open"} => req.job # "none"

Advertised ==
    /\ nvs[NameVar] \in GapNames => gapName = nvs[NameVar]
    /\ gapName \in AdvNames /\ Absent \notin {nvs[InitVar], nvs[IdVar]} =>
         adv = ManufacturerData(nvs[InitVar], nvs[IdVar])

\* ble_app_advertise between its first read of NVS and its last of the table.
Loading ==
    LET v == task["host"].i IN
    /\ task["host"].pc \in {"alloc", "get"} => nvs[v] # Absent /\ task["host"].sz = Size[nvs[v]]
    /\ task["host"].pc \notin {"free", "null"}
    /\ task["host"].pc = "get" => ram[v].own = "heap"
    /\ \A w \in Passed("host") : nvs[w] # Absent => ram[w].own = "heap" /\ ram[w].val = nvs[w]
    /\ task["host"].pc = "data" => (nvs[NameVar] \in GapNames => gapName = nvs[NameVar])

FreshInv ==
    fresh => /\ Booted
             /\ req.job \in {"none", "read"} => Advertised
             /\ req.job = "adv" => Loading

AdvInv == nvsReady /\ JobAt /\ FreshInv

\* readVariablesFromNvs in the host task loads the table as NVS has it.
LEMMA ReadAdv ==
    ASSUME NoStarvation, IInv, Steady, AdvInv, ReadVariables("host"), ~Reboot
    PROVE  AdvInv'
<1>a. PICK v \in Vars : v = task["host"].i
  BY TaskFacts DEF IInv
<1>0. /\ "host" \in Tasks /\ v = task["host"].i /\ TypeOK /\ nvsReady /\ ram[v] \in Pointers
      /\ UNCHANGED <<nvs, nvsReady, req, gapName, adv, fresh>> /\ task'["main"] = task["main"]
      /\ \A w \in Vars \ {v} : ram'[w] = ram[w]
      /\ task["host"].pc \in Reading \cup {"open"}
      /\ {"size", "alloc", "get", "free", "null"} = Reading
      /\ task["host"].sz \in Nat
  <2>1. TypeOK /\ nvsReady
    BY DEF IInv, AdvInv
  <2>2. /\ UNCHANGED <<nvs, nvsReady, req, gapName, adv, fresh>> /\ task'["main"] = task["main"]
        /\ \A w \in Vars \ {task["host"].i} : ram'[w] = ram[w]
        /\ task["host"].pc \in Reading \cup {"open"}
    BY <2>1, HostReadMoves, SMTT(30)
  <2> QED  BY <1>a, <2>1, <2>2, TaskFacts DEF Reading
<1>1. /\ task'["host"].pc \in Reading \cup {Return("host")}
      /\ Return("host") = (IF req.job = "read" THEN "respond" ELSE IF req.job = "write" THEN "fill" ELSE "name")
  BY <1>0, ReadCases DEF Moves, Turns, Return
<1>b. req.job # "none"
  BY <1>0 DEF AdvInv, JobAt, Reading
<1>2. JobAt'
  BY <1>0, <1>b, <1>1 DEF JobAt, Reading, TypeOK
<1>3. (Advertised' <=> Advertised) /\ (Booted' <=> Booted)
  BY <1>0 DEF Advertised, Booted, At
<1>4. ASSUME fresh, req.job = "adv", Loading PROVE Loading'
  <2>0. /\ Return("host") = "name" /\ v \notin Passed("host")
    BY <1>0, <1>4, VarsFacts DEF Passed, Return, Reading
  <2>1. ASSUME Passed("host")' \subseteq Passed("host") \cup {v},
               nvs[v] # Absent =>
                 (ram'[v].own = "heap" /\ ram'[v].val = nvs[v]) \/ v \notin Passed("host")',
               /\ task'["host"].pc \in {"alloc", "get"} =>
                    task'["host"].i = v /\ nvs[v] # Absent /\ task'["host"].sz = Size[nvs[v]]
               /\ task'["host"].pc \notin {"free", "null", "data"}
               /\ task'["host"].pc = "get" => ram'[v].own = "heap"
        PROVE  Loading'
    <3>1. \A w \in Passed("host")' : nvs[w] # Absent => ram'[w].own = "heap" /\ ram'[w].val = nvs[w]
      <4> SUFFICES ASSUME NEW w \in Passed("host")', nvs[w] # Absent
                   PROVE  ram'[w].own = "heap" /\ ram'[w].val = nvs[w]
        OBVIOUS
      <4>1. CASE w = v
        BY <2>1, <4>1
      <4>2. CASE w # v
        <5>1. w \in Passed("host") /\ w \in Vars
          BY <2>1, <4>2 DEF Passed
        <5> QED  BY <1>0, <1>4, <4>2, <5>1 DEF Loading
      <4> QED  BY <4>1, <4>2
    <3> QED  BY <1>0, <2>1, <3>1 DEF Loading
  <2>2. CASE Moves("host", {"open"}, IF nvsReady THEN "size" ELSE Return("host"))
    <3>1. Passed("host")' = {} /\ task'["host"].pc = "size"
      BY <1>0, <2>2, PassedMoves DEF Moves
    <3> QED  BY <2>1, <3>1
  <2>3. CASE nvs[v] = Absent /\ ram' = ram /\ Turns("host", {"size"}, "size", Return("host"))
    <3>1. Passed("host")' \subseteq Passed("host") \cup {v} /\ task'["host"].pc \in {"size", "name"}
      BY <1>0, <2>0, <2>3, PassedMoves DEF Turns
    <3> QED  BY <2>1, <2>3, <3>1
  <2>4. CASE /\ nvs[v] # Absent /\ ram' = ram
             /\ Moves("host", {"size"}, "alloc") /\ task'["host"].sz = Size[nvs[v]]
    <3>1. /\ Passed("host")' = Passed("host")
          /\ task'["host"].i = v /\ task'["host"].pc = "alloc"
      BY <1>0, <2>4, PassedMoves DEF Moves
    <3> QED  BY <2>0, <2>1, <2>4, <3>1
  <2>5. CASE /\ ram' = [ram EXCEPT ![v] = NewBuffer(task["host"].sz)]
             /\ Moves("host", {"alloc"}, "get") /\ task'["host"].sz = task["host"].sz
    <3>1. /\ Passed("host")' = Passed("host") /\ task["host"].pc = "alloc"
          /\ task'["host"].i = v /\ task'["host"].pc = "get"
      BY <1>0, <2>5, PassedMoves DEF Moves
    <3>2. ram'[v].own = "heap"
      BY <1>0, <2>5 DEF NewBuffer, Heap, TypeOK
    <3>3. nvs[v] # Absent /\ task["host"].sz = Size[nvs[v]]
      BY <1>0, <1>4, <3>1 DEF Loading
    <3> QED  BY <2>0, <2>1, <2>5, <3>1, <3>2, <3>3
  <2>6. CASE /\ nvs[v] # Absent
             /\ ram' = IF ram[v].own = "heap" THEN [ram EXCEPT ![v].val = nvs[v]] ELSE ram
             /\ Turns("host", {"get"}, "size", Return("host"))
    <3>1. /\ Passed("host")' \subseteq Passed("host") \cup {v} /\ task["host"].pc = "get"
          /\ task'["host"].pc \in {"size", "name"}
      BY <1>0, <2>0, <2>6, PassedMoves DEF Turns
    <3>2. ram[v].own = "heap"
      BY <1>0, <1>4, <3>1 DEF Loading
    <3>3. ram'[v].own = "heap" /\ ram'[v].val = nvs[v]
      BY <1>0, <2>6, <3>2 DEF TypeOK, Pointers
    <3> QED  BY <2>1, <3>1, <3>3
  <2>7. CASE ~(nvs[v] # Absent /\ Size[nvs[v]] <= task["host"].sz) /\ task["host"].pc = "get"
    <3>1. nvs[v] # Absent /\ task["host"].sz = Size[nvs[v]]
      BY <1>0, <1>4, <2>7 DEF Loading
    <3> QED  BY <1>0, <2>7, <3>1
  <2>8. CASE task["host"].pc \in {"free", "null"}
    BY <1>4, <2>8 DEF Loading
  <2>9. "malloc" \notin Faults
    BY DEF NoStarvation
  <2> QED  BY <1>0, <2>2, <2>3, <2>4, <2>5, <2>6, <2>7, <2>8, <2>9, HostReadCases
<1>5. FreshInv'
  BY <1>0, <1>3, <1>4 DEF AdvInv, FreshInv
<1> QED  BY <1>0, <1>2, <1>5 DEF AdvInv

\* The rest of the host task.
LEMMA HostAdv ==
    ASSUME IInv, Steady, AdvInv, HostStep, ~ReadVariables("host"), ~Reboot
    PROVE  AdvInv'
<1>0. /\ "host" \in Tasks /\ TypeOK /\ nvsReady' /\ (Booted' <=> Booted)
      /\ InitVar \in Vars /\ NameVar \in Vars /\ IdVar \in Vars
  BY TaskFacts, HostMoves, VarsFacts DEF IInv, AdvInv, Booted, At
<1>1. CASE OnSync \/ GapEvent \/ LogTable
  <2>1. /\ fresh' = Booted /\ task'["host"].pc = "open" /\ req'.job = "adv"
    <3>1. Advertise /\ fresh' = Booted
      BY <1>1 DEF OnSync, GapEvent, LogTable, Outcome
    <3>2. req'.job = "adv"
      BY <1>0, <1>1 DEF OnSync, GapEvent, LogTable, Outcome, NoReq, TypeOK
    <3> QED  BY <1>0, <3>1, <3>2 DEF Advertise, TypeOK
  <2>2. fresh' => Booted
    BY <2>1, Zenon
  <2>3. JobAt' /\ Loading'
    BY <2>1 DEF JobAt, Loading, Passed, Reading
  <2> QED  BY <1>0, <2>1, <2>2, <2>3 DEF AdvInv, FreshInv
<1>2. CASE HostEvent /\ ~GapEvent
  <2>1. /\ task["host"].pc = "idle" /\ task'["host"].pc = "open" /\ req'.job \in {"read", "write"}
        /\ UNCHANGED <<nvs, gapName, adv, fresh>>
    <3>1. PICK job \in {"read", "write"} : \E char, load : GattAccess(job, char, load)
      BY <1>2 DEF HostEvent
    <3>2. Goto("host", "open") /\ req'.job = job
      BY <3>1 DEF GattAccess
    <3> QED  BY <1>0, <3>1, <3>2, GotoMoves DEF GattAccess, At, flash, radio, history
  <2>2. JobAt'
    BY <2>1 DEF JobAt
  <2>3. fresh => Advertised'
    BY <2>1 DEF AdvInv, JobAt, FreshInv, Advertised
  <2> QED  BY <1>0, <2>1, <2>2, <2>3 DEF AdvInv, FreshInv
<1>3. CASE Respond
  <2>1. /\ task["host"].pc = "respond" /\ task'["host"].pc = "idle" /\ req'.job = "none"
        /\ UNCHANGED <<nvs, gapName, adv, fresh>>
    <3>1. Goto("host", "idle") /\ req' = NoReq
      BY <1>3 DEF Respond, Outcome
    <3> QED  BY <1>0, <1>3, <3>1, GotoMoves DEF Respond, Outcome, At, flash, radio, history, NoReq
  <2>2. JobAt'
    BY <2>1 DEF JobAt, Reading
  <2>3. fresh => Advertised'
    BY <2>1 DEF AdvInv, JobAt, FreshInv, Advertised
  <2> QED  BY <1>0, <2>1, <2>2, <2>3 DEF AdvInv, FreshInv
<1>4. CASE FillFree \/ FillDup \/ Mark \/ Store
  <2>1. /\ task["host"].pc \in {"fill", "dup", "mark", "store"} /\ UNCHANGED <<req, fresh>>
        /\ task'["host"].pc \in {"fill", "dup", "mark", "store", "print"}
    <3>1. UNCHANGED <<req, fresh>>
      BY <1>4 DEF FillFree, FillDup, Mark, Store, Outcome, history
    <3>2. task["host"].pc \in {"fill", "dup", "mark", "store"}
      BY <1>4 DEF FillFree, FillDup, Mark, Store, At
    <3> QED  BY <1>0, <3>1, <3>2, HostTurns, SMTT(30) DEF Moves, Turns
  <2>2. req'.job = "write"
    BY <2>1 DEF AdvInv, JobAt
  <2>3. JobAt'
    BY <2>1, <2>2 DEF JobAt
  <2> QED  BY <1>0, <2>1, <2>2, <2>3 DEF AdvInv, FreshInv
<1>5. CASE AdvName
  <2>1. /\ task["host"].pc = "name" /\ task'["host"].pc = "data"
        /\ UNCHANGED <<nvs, req, fresh>>
        /\ ram' = [ram EXCEPT ![InitVar] = FlagOrDefault(ram[InitVar])]
        /\ gapName' \in IF ram[NameVar].own = "null" THEN {gapName}
                        ELSE IF Seen(ram[NameVar]) = Garbage THEN {gapName, Garbage}
                        ELSE IF Seen(ram[NameVar]) \in GapNames THEN {Seen(ram[NameVar])}
                        ELSE {gapName}
    BY <1>0, <1>5, GotoMoves DEF AdvName, Outcome, At, flash, history
  <2>2. req.job = "adv" /\ JobAt'
    BY <2>1 DEF AdvInv, JobAt
  <2>3. ASSUME fresh PROVE Loading'
    <3>1. \A w \in Vars : nvs[w] # Absent => ram[w].own = "heap" /\ ram[w].val = nvs[w]
      BY <2>1, <2>2, <2>3 DEF AdvInv, FreshInv, Loading, Passed, Reading
    <3>2. \A w \in Vars : ram[w].own = "heap" => ram'[w] = ram[w]
      BY <1>0, <2>1 DEF FlagOrDefault, TypeOK
    <3>3. nvs[NameVar] \in GapNames => gapName' = nvs[NameVar]
      <4> SUFFICES ASSUME nvs[NameVar] \in GapNames PROVE gapName' = nvs[NameVar]
        OBVIOUS
      <4>1. nvs[NameVar] # Absent /\ nvs[NameVar] # Garbage
        BY StringAssumption
      <4>2. ram[NameVar].own = "heap" /\ Seen(ram[NameVar]) = nvs[NameVar]
        BY <1>0, <3>1, <4>1 DEF Seen
      <4> QED  BY <2>1, <4>1, <4>2
    <3> QED  BY <2>1, <3>1, <3>2, <3>3 DEF Loading, Passed
  <2> QED  BY <1>0, <2>1, <2>2, <2>3 DEF AdvInv, FreshInv
<1>6. CASE AdvData
  <2>1. /\ task["host"].pc = "data" /\ task'["host"].pc = "idle" /\ req'.job = "none"
        /\ UNCHANGED <<nvs, ram, gapName, fresh>>
        /\ gapName \in AdvNames => adv' = ManufacturerData(Seen(ram[InitVar]), Seen(ram[IdVar]))
    <3>1. /\ Goto("host", "idle") /\ req' = NoReq
          /\ UNCHANGED <<flash, ram, gapName, history>>
          /\ gapName \in AdvNames => adv' = ManufacturerData(Seen(ram[InitVar]), Seen(ram[IdVar]))
      BY <1>6 DEF AdvData, Outcome
    <3> QED  BY <1>0, <1>6, <3>1, GotoMoves DEF AdvData, At, flash, history, NoReq
  <2>2. req.job = "adv" /\ JobAt'
    BY <2>1 DEF AdvInv, JobAt, Reading
  <2>3. ASSUME fresh PROVE Advertised'
    <3>1. /\ \A w \in Vars : nvs[w] # Absent => ram[w].own = "heap" /\ ram[w].val = nvs[w]
          /\ nvs[NameVar] \in GapNames => gapName = nvs[NameVar]
      BY <2>1, <2>2, <2>3 DEF AdvInv, FreshInv, Loading, Passed, Reading
    <3>2. nvs[InitVar] # Absent => Seen(ram[InitVar]) = nvs[InitVar]
      BY <1>0, <3>1 DEF Seen
    <3>3. nvs[IdVar] # Absent => Seen(ram[IdVar]) = nvs[IdVar]
      BY <1>0, <3>1 DEF Seen
    <3> QED  BY <2>1, <3>1, <3>2, <3>3 DEF Advertised
  <2> QED  BY <1>0, <2>1, <2>2, <2>3 DEF AdvInv, FreshInv
<1> QED  BY <1>1, <1>2, <1>3, <1>4, <1>5, <1>6 DEF HostStep, Callback

LEMMA NextAdv ==
    ASSUME NoStarvation, NoErase, IInv, Steady, AdvInv, [Next]_vars
    PROVE  AdvInv'
<1>1. CASE UNCHANGED vars
  <2>1. /\ Passed("host")' = Passed("host") /\ (Advertised' <=> Advertised)
    BY <1>1 DEF vars, Passed, Advertised
  <2>2. Loading' <=> Loading
    BY <1>1, <2>1 DEF vars, Loading
  <2> QED  BY <1>1, <2>1, <2>2 DEF vars, AdvInv, JobAt, FreshInv, Booted, At
<1>2. CASE Reboot
  BY <1>2, RebootMoves DEF Reboot, NoStarvation, AdvInv, JobAt, Reading, FreshInv, NoReq
<1>3. CASE MainStep /\ ~Reboot
  <2>1. ~fresh' /\ nvsReady' /\ task'["host"] = task["host"] /\ req' = req
    BY <1>3, MainMoves DEF IInv, AdvInv, FreshInv
  <2> QED  BY <2>1 DEF AdvInv, JobAt, FreshInv
<1>4. CASE HostStep /\ ~Reboot
  BY <1>4, ReadAdv, HostAdv
<1>5. CASE Console /\ ~Reboot
  <2>1. ~fresh' /\ nvsReady' /\ task' = task /\ req' = req
    BY <1>5 DEF Console, SetNvs, DelNvs, EraseNvs, EraseInit, PrintMRD, NoErase, Steady, AdvInv
  <2> QED  BY <2>1 DEF AdvInv, JobAt, FreshInv
<1> QED  BY <1>1, <1>2, <1>3, <1>4, <1>5, Steps

\* Whatever the payloads and the commands of the operator, bar the erase, and
\* even if NVS refuses a write: as long as malloc and nvs_flash_init do not fail,
\* an advertisement that began after the boot carries the name, the flag and the
\* ID that NVS holds (main/ble.c:160-183, main/myRemoteDevice.c:72-95).
THEOREM AlwaysAdvertised ==
    ASSUME NoStarvation, NoErase PROVE Spec => []AdvMatchesStore
<1> DEFINE Inv == IInv /\ Steady /\ AdvInv
<1>1. Init => Inv
  <2>1. Init => AdvInv
    BY DEF Init, AdvInv, JobAt, Reading, FreshInv, BootTask, Tasks, NoReq
  <2> QED  BY <2>1, InitIInv, InitSteady
<1>2. Inv /\ [Next]_vars => Inv'
  <2> SUFFICES ASSUME Inv, [Next]_vars PROVE Inv'
    OBVIOUS
  <2> QED  BY NextIInv, NextSteady, NextAdv DEF IInv
<1>3. Inv => AdvMatchesStore
  BY DEF AdvInv, JobAt, FreshInv, Advertised, AdvMatchesStore, At
<1> QED  BY <1>1, <1>2, <1>3, PTL DEF Spec

-----------------------------------------------------------------------------
(* The device that a central sees (module ProvisionedDevice). First, what    *)
(* the refinement mapping says in terms of the state.                        *)

PhaseOf(r, pc) ==
    IF r.job = "write" /\ ~r.booted THEN "meddling"
    ELSE IF pc = "respond" /\ r.booted THEN "answering"
    ELSE IF pc = "store" THEN "storing"
    ELSE IF pc = "data" THEN "named"
    ELSE IF pc = "print" \/ r.job = "adv" THEN "announcing"
    ELSE "idle"
BootOf(pc) ==
    IF pc = "done" THEN "up" ELSE IF pc = "defaults" THEN "defaulting" ELSE "loading"
DueOf(main, host, ack) ==
    {v \in Vars : \/ main.pc = "defaults" /\ v >= main.i
                  \/ host.pc = "store" /\ v \in DOMAIN ack /\ v >= host.i}
AnswerOf(ph, m) == [v \in {w \in Vars : ph = "answering" /\ m[w].own # "null"} |-> Seen(m[v])]

\* Boot, phase, due and answer, in terms of what each depends on.
LEMMA MapIs ==
    /\ phase = PhaseOf(req, task["host"].pc) /\ phase' = PhaseOf(req', task'["host"].pc)
    /\ boot = BootOf(task["main"].pc) /\ boot' = BootOf(task'["main"].pc)
    /\ due = DueOf(task["main"], task["host"], acked)
    /\ due' = DueOf(task'["main"], task'["host"], acked')
    /\ answer = AnswerOf(phase, ram) /\ answer' = AnswerOf(phase', ram')
<1>1. phase = PhaseOf(req, task["host"].pc) /\ phase' = PhaseOf(req', task'["host"].pc)
  BY DEF phase, PhaseOf, At
<1>2. boot = BootOf(task["main"].pc) /\ boot' = BootOf(task'["main"].pc)
  BY DEF boot, BootOf, Booted, At
<1>3. due = DueOf(task["main"], task["host"], acked)
  BY DEF due, DueOf, At
<1>4. due' = DueOf(task'["main"], task'["host"], acked')
  BY DEF due, DueOf, At
<1>5. answer = AnswerOf(phase, ram) /\ answer' = AnswerOf(phase', ram')
  BY DEF answer, AnswerOf
<1> QED  BY <1>1, <1>2, <1>3, <1>4, <1>5

\* There is an answer only while there is one to give.
LEMMA NoAnswer == ASSUME NEW ph, NEW m, ph # "answering" PROVE AnswerOf(ph, m) = <<>>
BY DEF AnswerOf

-----------------------------------------------------------------------------
\* What is known of a device whose console leaves NVS alone and on which no
\* call fails.
Known == IInv /\ Owned /\ Quiet /\ IdInv /\ NullInv /\ AckInv /\ AdvInv

LEMMA InitKnown == Init => Known
<1>1. Init => NullInv
  BY DEF Init, NullInv, IdThere, SizeKnown, NothingLost, NoNullDerefOnceBooted, Booted, BootTask,
         At, Tasks, NoReq
<1>2. Init => AckInv
  BY DEF Init, AckInv, IdThere, AckedHasId, AckedWriteDurable, NothingToDefault, LoadFilled,
         StoreHolds, AckedRead, Booted, BootTask, At, Tasks, NoReq
<1>3. Init => IdInv
  BY DEF Init, IdInv, ConsoleWaits, HandleOpen, FailureNoted, IdLoaded, BootTask, Reading, At, Tasks
<1>4. Init => AdvInv
  BY DEF Init, AdvInv, JobAt, Reading, FreshInv, BootTask, Tasks, NoReq
<1> QED  BY <1>1, <1>2, <1>3, <1>4, InitIInv, InitOwned, InitQuiet DEF Known

LEMMA NextKnown ==
    ASSUME NoFaults, NoRemoval, NoSetNvs, Known, [Next]_vars
    PROVE  Known'
<1>1. NoStarvation /\ NoErase
  BY FaultFacts DEF NoStarvation, NoErase, NoRemoval
<1>2. IInv' /\ Owned' /\ Quiet' /\ IdInv'
  BY NextIInv, NextOwned, NextQuiet, NextIdInv DEF IInv, Known
<1>3. NullInv' /\ AckInv'
  BY NextNullInv, NextAck DEF Known
<1>4. AdvInv'
  BY <1>1, NextAdv DEF Known, Quiet
<1> QED  BY <1>2, <1>3, <1>4 DEF Known

\* Who steps, if nobody but the operator of the power switch interferes.
LEMMA StepCases ==
    ASSUME NoRemoval, NoSetNvs, Known, [Next]_vars
    PROVE  \/ UNCHANGED vars
           \/ Reboot
           \/ MainStep /\ ~Reboot
           \/ HostStep /\ ~Reboot /\ ReadVariables("host")
           \/ HostStep /\ ~Reboot /\ ~ReadVariables("host")
BY Steps, ConsoleQuiet DEF Known, Quiet

\* The parts of it that most steps need.
LEMMA KnownFacts ==
    ASSUME Known
    PROVE  /\ TypeOK /\ Steady /\ KeyThere /\ nvsReady /\ JobAt
           /\ "host" \in Tasks /\ "main" \in Tasks
           /\ task["host"].i \in Vars /\ ram[task["host"].i] \in Pointers
BY TaskFacts DEF Known, IInv, Quiet, NullInv, AdvInv

\* Where a step of readVariablesFromNvs leads to.
LEMMA ReadEnds ==
    ASSUME TypeOK, NEW t \in Tasks, ReadVariables(t), ~Reboot
    PROVE  task'[t].pc \in {"size", "alloc", "get", "free", "null", Return(t)}
<1>1. CASE ReadOpen(t)
  BY <1>1 DEF ReadOpen, TypeOK
<1>2. CASE ReadSize(t)
  <2>1. CASE task' = [task EXCEPT ![t].pc = "alloc", ![t].sz = Size[nvs[task[t].i]]]
    BY <2>1 DEF TypeOK
  <2>2. CASE Loop(t, "size", Return(t))
    BY <2>2, LoopMoves
  <2> QED  BY <1>2, <2>1, <2>2 DEF ReadSize
<1>p. /\ \A pc : Goto(t, pc) => task'[t].pc = pc
      /\ Loop(t, "size", Return(t)) => task'[t].pc \in {"size", Return(t)}
  BY LoopMoves, GotoMoves
<1>3. CASE ReadAlloc(t)
  BY <1>3, <1>p DEF ReadAlloc
<1>4. CASE ReadGet(t)
  <2>1. Loop(t, "size", Return(t)) \/ Goto(t, "free")
    BY <1>4 DEF ReadGet, Outcome
  <2> QED  BY <1>p, <2>1
<1>5. CASE ReadFree(t) \/ ReadNull(t)
  <2>1. Loop(t, "size", Return(t)) \/ Goto(t, "null")
    BY <1>5 DEF ReadFree, ReadNull, Outcome
  <2> QED  BY <1>p, <2>1
<1> QED  BY <1>1, <1>2, <1>3, <1>4, <1>5 DEF ReadVariables

-----------------------------------------------------------------------------
\* What the history notes of the write in progress.
StoreKnows == At("host", "store") => acked = IF req.booted THEN Written ELSE <<>>
LoadGiven == req.job = "write" => req.load \in Payloads

\* Only Mark enters the loop of writeVariablesToNvs, and only a GATT write
\* brings a payload.
LEMMA NextStoreKnows ==
    ASSUME NoFaults, NoRemoval, NoSetNvs, Known, StoreKnows, LoadGiven, [Next]_vars
    PROVE  StoreKnows' /\ LoadGiven'
<1>0. TypeOK /\ "host" \in Tasks
  BY KnownFacts
<1>1. CASE UNCHANGED vars
  BY <1>1 DEF vars, StoreKnows, LoadGiven, At, Written
<1>2. CASE Reboot
  BY <1>2, RebootMoves DEF StoreKnows, LoadGiven, At, NoReq
<1>3. CASE MainStep /\ ~Reboot
  BY <1>0, <1>3, MainMoves DEF StoreKnows, LoadGiven, At, Written
<1>4. CASE HostStep /\ ~Reboot /\ ReadVariables("host")
  <2>1. task'["host"].pc # "store"
    <3>1. PICK v : v = task["host"].i
      OBVIOUS
    <3>2. Steady /\ "malloc" \notin Faults
      BY KnownFacts, FaultFacts
    <3>3. Return("host") # "store"
      BY DEF Return
    <3>4. task'["host"].pc \in {"size", "alloc", "get", "free", "null", Return("host")}
      BY <1>0, <1>4, ReadEnds
    <3> QED  BY <3>3, <3>4
  <2> QED  BY <1>0, <1>4, <2>1, HostReadMoves DEF StoreKnows, LoadGiven, At
<1>5. CASE HostStep /\ ~Reboot /\ ~ReadVariables("host")
  <2>1. CASE Mark
    BY <2>1 DEF Mark, StoreKnows, LoadGiven, Written
  <2>2. CASE Store
    BY <1>5, <2>2 DEF Store, Outcome, history, StoreKnows, LoadGiven, At, Written
  <2>3. CASE ~Mark /\ ~Store
    <3>1. task'["host"].pc # "store"
      BY <1>0, <1>5, <2>3, HostTurns DEF Moves, Turns
    <3>2. LoadGiven'
      <4>1. CASE OnSync \/ HostEvent
        <5>1. CASE OnSync \/ GapEvent
          <6>1. req' = [NoReq EXCEPT !.job = "adv", !.booted = Booted]
            BY <5>1 DEF OnSync, GapEvent
          <6>2. req'.job = "adv"
            BY <6>1 DEF NoReq
          <6> QED  BY <6>2 DEF LoadGiven
        <5>2. ASSUME NEW job, NEW char, NEW load, GattAccess(job, char, load),
                     job = "write" => load \in Payloads
              PROVE  LoadGiven'
          <6>1. req' = [job |-> job, char |-> char, load |-> load, booted |-> Booted]
            BY <5>2 DEF GattAccess
          <6>2. req'.job = job /\ req'.load = load
            BY <6>1
          <6> QED  BY <5>2, <6>2 DEF LoadGiven
        <5> QED  BY <4>1, <5>1, <5>2 DEF HostEvent
      <4>2. CASE LogTable
        <5>1. req' = [req EXCEPT !.job = "adv"]
          BY <1>5, <4>2 DEF LogTable, Outcome
        <5> QED  BY <1>0, <5>1 DEF LoadGiven, TypeOK
      <4>3. CASE Respond \/ FillFree \/ FillDup \/ AdvName \/ AdvData
        <5>1. req' = req \/ req' = NoReq
          BY <1>5, <4>3 DEF Respond, FillFree, FillDup, AdvName, AdvData, Outcome
        <5> QED  BY <5>1 DEF LoadGiven, NoReq
      <4> QED  BY <1>5, <2>3, <4>1, <4>2, <4>3 DEF HostStep, Callback
    <3> QED  BY <3>1, <3>2 DEF StoreKnows, At
  <2> QED  BY <2>1, <2>2, <2>3
<1> QED  BY <1>1, <1>2, <1>3, <1>4, <1>5, StepCases

-----------------------------------------------------------------------------
\* A variable that NVS does not hold has no value in RAM either, but for the
\* flag of ble_app_advertise and what a write is about to store.
BeingStored(v) ==
    /\ v \in DOMAIN Written
    /\ \/ task["host"].pc \in {"fill", "dup", "mark"}
       \/ task["host"].pc = "store" /\ ~(v < task["host"].i)
Blank(v) ==
    \/ ram[v].own = "null"
    \/ v = InitVar /\ ram[v] = Rodata(FalseStr)
    \/ BeingStored(v)
Blanks == \A v \in Vars : nvs[v] = Absent => Blank(v)

\* readVariablesFromNvs gives no value to a variable that NVS does not hold.
LEMMA ReadKeepsBlank ==
    ASSUME TypeOK, Steady, KeyThere, NEW t \in Tasks, ReadVariables(t), ~Reboot,
           NEW v \in Vars, nvs[v] = Absent
    PROVE  ram'[v] = ram[v] \/ ram'[v].own = "null"
<1>1. CASE v # task[t].i
  BY <1>1, ReadVariablesMoves
<1>2. CASE v = task[t].i
  <2>1. task[t].pc \notin Reading \ {"size"}
    BY <1>2 DEF KeyThere
  <2>2. ram' = ram
    BY <1>2, <2>1, ReadCases DEF Moves, Turns, Reading
  <2> QED  BY <2>2
<1> QED  BY <1>1, <1>2

LEMMA WrittenKeys ==
    /\ DOMAIN req.load \subseteq DOMAIN Written
    /\ req.char = "uninitialized" => InitVar \in DOMAIN Written
BY DEF Written

\* fillVariblaseFromJsonString gives values to what is about to be stored only.
LEMMA FillKeepsBlank ==
    ASSUME Known, FillFree \/ FillDup \/ Mark, ~Reboot, NEW v \in Vars, Blank(v)
    PROVE  Blank(v)'
<1>0. /\ TypeOK /\ DupKey /\ "host" \in Tasks /\ task["host"].i \in Vars /\ HostStep
      /\ ~ReadVariables("host")
  BY KnownFacts DEF Known, IInv, HostStep, Callback, FillFree, FillDup, Mark, ReadVariables, ReadOpen,
     ReadSize, ReadAlloc, ReadGet, ReadFree, ReadNull, At
<1>1. req' = req
  BY DEF FillFree, FillDup, Mark, Outcome
<1>2. Written' = Written
  BY <1>1 DEF Written
<1>3. CASE FillFree \/ FillDup
  <2>1. task["host"].pc \in {"fill", "dup"} /\ task'["host"].pc \in {"fill", "dup", "mark"}
    BY <1>0, <1>3, HostTurns DEF Moves, Turns, FillFree, FillDup, At
  <2>2. BeingStored(v) => BeingStored(v)'
    BY <1>2, <2>1 DEF BeingStored
  <2>3. CASE v \in DOMAIN Written
    BY <1>2, <2>1, <2>3 DEF Blank, BeingStored
  <2>4. CASE v \notin DOMAIN Written
    <3>1. task["host"].i \in DOMAIN req.load \/ ram' = ram
      BY <1>0, <1>3 DEF FillFree, FillDup, DupKey, At
    <3>2. ram'[v] = ram[v]
      <4>1. ram' = ram \/ \E p : ram' = [ram EXCEPT ![task["host"].i] = p]
        BY <1>3 DEF FillFree, FillDup, Outcome
      <4> QED  BY <1>0, <2>4, <3>1, <4>1, WrittenKeys DEF TypeOK
    <3> QED  BY <2>4, <3>2 DEF Blank, BeingStored
  <2> QED  BY <2>3, <2>4, ZenonT(40)
<1>4. CASE Mark
  <2>1. /\ task["host"].pc = "mark" /\ task'["host"].pc = "store"
        /\ task["host"].i = 1 /\ task'["host"].i = 1
    BY <1>0, <1>4, HostTurns, KnownFacts DEF Moves, Turns, FillFree, FillDup, Mark, At, HostEvent,
       GapEvent, GattAccess, OnSync, Respond, Store, LogTable, AdvName, AdvData, Steady, FromFirst, Reading
  <2>2. ~(v < 1)
    BY TableAssumption DEF Vars
  <2>3. CASE v \in DOMAIN Written
    BY <1>2, <2>1, <2>2, <2>3 DEF Blank, BeingStored
  <2>4. CASE v \notin DOMAIN Written
    <3>1. ram'[v] = ram[v]
      BY <1>0, <1>4, <2>4, WrittenKeys DEF Mark, TypeOK
    <3> QED  BY <2>4, <3>1 DEF Blank, BeingStored
  <2> QED  BY <2>3, <2>4, ZenonT(40)
<1> QED  BY <1>3, <1>4, ZenonT(40)

\* writeVariablesToNvs does not pass a value without storing it.
LEMMA StoreKeepsBlank ==
    ASSUME NoFaults, Known, Store, ~Reboot, NEW v \in Vars, Blank(v), nvs'[v] = Absent
    PROVE  Blank(v)'
<1>0. /\ TypeOK /\ "host" \in Tasks /\ task["host"].i \in Vars /\ HostStep /\ nvsReady
      /\ ~ReadVariables("host") /\ task["host"].pc = "store"
  BY KnownFacts DEF HostStep, Callback, Store, ReadVariables, ReadOpen,
     ReadSize, ReadAlloc, ReadGet, ReadFree, ReadNull, At
<1>1. req' = req /\ ram' = ram
  BY DEF Store, Outcome
<1>2. Written' = Written
  BY <1>1 DEF Written
<1>3. CASE ~BeingStored(v)
  BY <1>1, <1>3 DEF Blank
<1>4. CASE BeingStored(v)
  <2>1. ~(v < task["host"].i) /\ v \in DOMAIN Written
    BY <1>0, <1>4 DEF BeingStored
  <2>2. CASE v = task["host"].i /\ ram[v].own # "null"
    <3>1. Usable("host") /\ WrittenBack(v)
      BY <1>0, <2>2 DEF Known, AckInv, StoreHolds, At, Usable, WrittenBack
    <3>2. nvs' = [nvs EXCEPT ![v] = Seen(ram[v])]
      BY <2>2, <3>1, FaultFacts DEF Store, Outcome
    <3>3. Seen(ram[v]) # Absent
      BY <1>0, <2>2, KnownFacts, PointerFacts, StringAssumption
    <3> QED  BY <1>0, <3>2, <3>3 DEF TypeOK
  <2>3. CASE ram[v].own = "null"
    BY <1>1, <2>3 DEF Blank
  <2>4. CASE v # task["host"].i
    <3>1. task["host"].i < NumVars
      BY <1>0, <2>1, <2>4, TableAssumption DEF Vars
    <3>2. Loop("host", "store", "print")
      BY DEF Store, Outcome
    <3>3. task'["host"].pc = "store" /\ task'["host"].i = task["host"].i + 1
      BY <1>0, <3>1, <3>2, LoopTurns, TableAssumption
    <3>4. ~(v < task'["host"].i)
      BY <1>0, <2>1, <2>4, <3>3, TableAssumption DEF Vars
    <3> QED  BY <1>2, <2>1, <3>3, <3>4 DEF Blank, BeingStored
  <2> QED  BY <2>2, <2>3, <2>4
<1> QED  BY <1>3, <1>4

\* So no step breaks it.
LEMMA NextBlanks ==
    ASSUME NoFaults, NoRemoval, NoSetNvs, Known, Blanks, [Next]_vars
    PROVE  Blanks'
<1>0. TypeOK /\ Steady /\ KeyThere /\ "host" \in Tasks /\ "main" \in Tasks
  BY KnownFacts
<1> SUFFICES ASSUME NEW v \in Vars, nvs'[v] = Absent PROVE Blank(v)'
  BY DEF Blanks
<1>b. nvs[v] = Absent /\ Blank(v)
  BY <1>0, KeysStay DEF Blanks
<1>1. CASE UNCHANGED vars
  BY <1>1, <1>b DEF vars, Blank, BeingStored, Written
<1>2. CASE Reboot
  BY <1>2, RebootMoves DEF Blank, NullPtr
<1>3. CASE MainStep /\ ~Reboot
  <2>1. task'["host"] = task["host"] /\ req' = req
    BY <1>0, <1>3, MainMoves
  <2>2. BeingStored(v) => BeingStored(v)'
    BY <2>1 DEF BeingStored, Written
  <2>3. ram'[v] = ram[v] \/ ram'[v].own = "null"
    BY <1>0, <1>3, <1>b, ReadKeepsBlank DEF MainStep, MainBoot, MainCheck, MainDefault
  <2> QED  BY <1>b, <2>2, <2>3 DEF Blank
<1>4. CASE HostStep /\ ~Reboot /\ ReadVariables("host")
  <2>1. ram'[v] = ram[v] \/ ram'[v].own = "null"
    BY <1>0, <1>4, <1>b, ReadKeepsBlank
  <2>2. ~BeingStored(v)
    BY <1>0, <1>4, HostReadMoves DEF BeingStored, Reading
  <2> QED  BY <1>b, <2>1, <2>2 DEF Blank
<1>5. CASE HostStep /\ ~Reboot /\ ~ReadVariables("host")
  <2>1. CASE FillFree \/ FillDup \/ Mark
    BY <1>5, <1>b, <2>1, FillKeepsBlank
  <2>2. CASE Store
    BY <1>5, <1>b, <2>2, StoreKeepsBlank
  <2>3. CASE AdvName
    <3>1. ~BeingStored(v)
      BY <2>3 DEF AdvName, At, BeingStored
    <3>2. ram' = [ram EXCEPT ![InitVar] = FlagOrDefault(ram[InitVar])]
      BY <1>5, <2>3 DEF AdvName, Outcome
    <3>3. v # InitVar => ram'[v] = ram[v]
      BY <3>2, <1>0 DEF TypeOK
    <3>4. v = InitVar => ram'[v] = FlagOrDefault(ram[v])
      BY <3>2, <1>0 DEF TypeOK
    <3> QED  BY <1>b, <3>1, <3>3, <3>4 DEF Blank, FlagOrDefault
  <2>4. CASE OnSync \/ HostEvent \/ Respond \/ LogTable \/ AdvData
    <3>1. ~BeingStored(v)
      BY <2>4 DEF OnSync, HostEvent, GapEvent, GattAccess, Respond, LogTable, AdvData, At, BeingStored
    <3>2. ram' = ram
      BY <1>5, <2>4 DEF OnSync, HostEvent, GapEvent, GattAccess, Respond, LogTable, AdvData, Outcome
    <3> QED  BY <1>b, <3>1, <3>2 DEF Blank
  <2> QED  BY <1>5, <2>1, <2>2, <2>3, <2>4 DEF HostStep, Callback
<1> QED  BY <1>1, <1>2, <1>3, <1>4, <1>5, StepCases

-----------------------------------------------------------------------------
\* A device that has booted has an ID, unless a write that began before is
\* about to store it.
HasId ==
    Booted => \/ nvs[IdVar] # Absent
              \/ ~req.booted /\ task["host"].pc \in {"fill", "dup", "mark", "store"}

\* app_main is through when it has found an ID or has stored one.
LEMMA NextHasId ==
    ASSUME NoFaults, NoRemoval, NoSetNvs, Known, Blanks, HasId, [Next]_vars
    PROVE  HasId'
<1>0. /\ TypeOK /\ Steady /\ KeyThere /\ "host" \in Tasks /\ "main" \in Tasks /\ nvsReady
      /\ IdVar \in Vars /\ IdVar # InitVar
  BY KnownFacts, VarsFacts, TableAssumption DEF IdVar, InitVar
<1> SUFFICES ASSUME Booted', nvs'[IdVar] = Absent
             PROVE  ~req'.booted /\ task'["host"].pc \in {"fill", "dup", "mark", "store"}
  BY DEF HasId
<1>b. nvs[IdVar] = Absent /\ Blank(IdVar)
  BY <1>0, KeysStay DEF Blanks
<1>1. CASE UNCHANGED vars
  BY <1>1, <1>b DEF vars, HasId, Booted, At
<1>2. CASE Reboot
  BY <1>2, RebootMoves DEF Booted, At
<1>3. CASE MainStep /\ ~Reboot
  <2>1. ~req.booted /\ task'["host"] = task["host"] /\ req' = req
    BY <1>0, <1>3, MainMoves DEF Known, Owned, Exclusive
  <2>2. CASE ReadVariables("main") \/ MainBoot
    <3>1. task'["main"].pc \in {"open", "size", "alloc", "get", "free", "null", "check"}
      BY <1>0, <1>3, <2>2, ReadEnds, GotoMoves DEF MainBoot, Return
    <3> QED  BY <3>1 DEF Booted, At
  <2>3. CASE MainCheck
    <3>1. ~VariablesAreEmpty
      <4>1. ~(VariablesAreEmpty /\ nvsReady)
        <5>1. CASE VariablesAreEmpty /\ nvsReady
          BY <1>0, <2>3, <5>1 DEF MainCheck, Booted, At, TypeOK
        <5> QED  BY <5>1
      <4> QED  BY <1>0, <4>1
    <3>2. BeingStored(IdVar)
      BY <1>0, <1>b, <3>1 DEF Blank, VariablesAreEmpty
    <3> QED  BY <2>1, <3>2 DEF BeingStored
  <2>4. CASE MainDefault
    <3>1. Loop("main", "defaults", "done")
      BY <2>4 DEF MainDefault
    <3>2. task["main"].i = NumVars
      BY <1>0, <3>1, LoopTurns DEF Booted, At
    <3>3. nvs' = [nvs EXCEPT ![IdVar] = DefaultValue[IdVar]]
      BY <2>4, <3>2, FaultFacts DEF MainDefault, WriteDefault, IdVar
    <3>4. nvs'[IdVar] = DefaultValue[IdVar] /\ DefaultValue[IdVar] \in Strings
      BY <1>0, <3>3, StringAssumption, ZenonT(40) DEF TypeOK
    <3> QED  BY <3>4, StringAssumption
  <2> QED  BY <1>3, <2>2, <2>3, <2>4 DEF MainStep
<1>4. CASE HostStep /\ ~Reboot
  <2>1. Booted
    BY <1>0, <1>4, HostMoves DEF Booted, At
  <2>2. ~req.booted /\ task["host"].pc \in {"fill", "dup", "mark", "store"}
    BY <1>b, <2>1 DEF HasId
  <2>3. ~ReadVariables("host")
    BY <1>0, <1>4, <2>2, HostReadMoves DEF Reading
  <2>4. (FillFree \/ FillDup \/ Mark \/ Store) /\ req' = req
    <3>1. FillFree \/ FillDup \/ Mark \/ Store
      BY <1>0, <1>4, <2>2, <2>3, HostTurns DEF Moves, Turns
    <3> QED  BY <1>4, <3>1 DEF FillFree, FillDup, Mark, Store, Outcome
  <2>5. task'["host"].pc \in {"fill", "dup", "mark", "store"}
    <3>1. CASE Store /\ task["host"].i = IdVar
      <4>1. WrittenBack(IdVar) /\ Usable("host")
        BY <1>0, <1>b, <2>1, <3>1 DEF Known, NullInv, IdThere, AckInv, StoreHolds, Store, Usable, WrittenBack
      <4>2. nvs' = [nvs EXCEPT ![IdVar] = Seen(ram[IdVar])]
        BY <1>4, <3>1, <4>1, FaultFacts DEF Store, Outcome
      <4>3. Seen(ram[IdVar]) # Absent
        BY <1>0, <3>1, KnownFacts, PointerFacts, StringAssumption
      <4> QED  BY <1>0, <4>2, <4>3 DEF TypeOK
    <3>2. CASE ~Store \/ task["host"].i # IdVar
      BY <1>0, <1>4, <2>2, <2>3, <3>2, HostTurns DEF Moves, Turns, IdVar, Store, At
    <3> QED  BY <3>1, <3>2
  <2> QED  BY <2>2, <2>4, <2>5
<1> QED  BY <1>1, <1>2, <1>3, <1>4, StepCases

-----------------------------------------------------------------------------
\* A callback that began after the boot has in RAM what NVS holds, until it
\* stores something else.
Faithful(w) == nvs[w] # Absent => ram[w].own = "heap" /\ ram[w].val = nvs[w]
Untouched(w) ==
    /\ w \notin DOMAIN Written
    /\ \/ task["host"].pc \in {"fill", "dup", "mark"}
       \/ task["host"].pc = "store" /\ ~(w < task["host"].i)
Copied ==
    req.booted => \A w \in Passed("host") :
        task["host"].pc \in Reading \cup {"respond"} \/ Untouched(w) => Faithful(w)

\* readVariablesFromNvs copies every variable that NVS holds.
LEMMA ReadCopies ==
    ASSUME NoFaults, Known, Copied, ReadVariables("host"), ~Reboot, req.booted,
           NEW w \in Vars, w \in Passed("host")'
    PROVE  Faithful(w)'
<1>a. PICK v \in Vars : v = task["host"].i
  BY KnownFacts
<1>0. /\ TypeOK /\ Steady /\ nvsReady /\ "host" \in Tasks /\ "malloc" \notin Faults
      /\ nvs' = nvs /\ (w # v => ram'[w] = ram[w])
      /\ task["host"].pc \in Reading \cup {"open"} /\ task["host"].pc \notin {"free", "null"}
  BY <1>a, KnownFacts, FaultFacts, HostReadMoves DEF Known, NullInv, NothingLost
<1>1. w \in Passed("host") => w # v /\ Faithful(w)
  <2>1. w \in Passed("host") => w < v /\ task["host"].pc \in Reading
    BY <1>a, <1>0 DEF Passed
  <2> QED  BY <2>1, TableAssumption DEF Copied, Vars
<1>2. CASE w \in Passed("host")
  BY <1>0, <1>1, <1>2 DEF Faithful
<1>3. CASE w \notin Passed("host")
  <2>1. CASE Moves("host", {"open"}, IF nvsReady THEN "size" ELSE Return("host"))
    BY <1>0, <2>1, PassedMoves
  <2>2. CASE nvs[v] = Absent /\ Turns("host", {"size"}, "size", Return("host"))
    <3>1. w = v
      BY <1>a, <1>0, <1>3, <2>2, PassedMoves DEF Reading
    <3> QED  BY <1>0, <2>2, <3>1 DEF Faithful
  <2>3. CASE \E from, to \in Reading : Moves("host", {from}, to)
    BY <1>0, <1>3, <2>3, PassedMoves
  <2>4. CASE /\ ram' = IF ram[v].own = "heap" THEN [ram EXCEPT ![v].val = nvs[v]] ELSE ram
             /\ Turns("host", {"get"}, "size", Return("host"))
    <3>1. w = v
      BY <1>a, <1>0, <1>3, <2>4, PassedMoves DEF Reading
    <3>2. ram[v].own = "heap"
      BY <1>a, <2>4 DEF Turns, Known, Owned, Exclusive, At
    <3>3. ram'[v].own = "heap" /\ ram'[v].val = nvs[v]
      BY <1>0, <2>4, <3>2 DEF TypeOK, Pointers
    <3> QED  BY <1>0, <3>1, <3>3 DEF Faithful
  <2>5. CASE ~(nvs[v] # Absent /\ Size[nvs[v]] <= task["host"].sz) /\ task["host"].pc = "get"
    <3>1. nvs[v] # Absent /\ task["host"].sz = Size[nvs[v]]
      BY <1>a, <1>0, <2>5, KnownFacts DEF Known, NullInv, SizeKnown, KeyThere, Reading
    <3>2. Size[nvs[v]] \in Nat
      BY <1>0, <3>1, StringAssumption DEF TypeOK, Stored
    <3> QED  BY <2>5, <3>1, <3>2
  <2>r. {"size", "alloc", "get"} \subseteq Reading
    BY DEF Reading
  <2> QED  BY <1>a, <1>0, <2>1, <2>2, <2>3, <2>4, <2>5, <2>r, HostReadCases
<1> QED  BY <1>2, <1>3

\* Nobody else stores anything while a callback is on its way.
LEMMA NextCopied ==
    ASSUME NoFaults, NoRemoval, NoSetNvs, Known, Copied, [Next]_vars
    PROVE  Copied'
<1>0. /\ TypeOK /\ Steady /\ KeyThere /\ "host" \in Tasks /\ "main" \in Tasks /\ nvsReady
      /\ task["host"].i \in Vars /\ DupKey /\ Passed("host") \subseteq Vars /\ Passed("host")' \subseteq Vars
  BY KnownFacts DEF Known, IInv, Passed
<1>1. CASE UNCHANGED vars
  BY <1>1 DEF vars, Copied, Faithful, Untouched, Passed, Written
<1>2. CASE Reboot
  BY <1>2, RebootMoves DEF Copied, NoReq
<1>3. CASE MainStep /\ ~Reboot
  BY <1>0, <1>3, MainMoves DEF Known, Owned, Exclusive, Copied
<1>4. CASE HostStep /\ ~Reboot /\ ReadVariables("host")
  <2>1. req' = req
    BY <1>0, <1>4, HostReadMoves
  <2> QED  BY <1>0, <1>4, <2>1, ReadCopies DEF Copied
<1>5. CASE HostStep /\ ~Reboot /\ ~ReadVariables("host")
  <2>1. SUFFICES ASSUME req'.booted, NEW w \in Vars, w \in Passed("host")', Untouched(w)'
                 PROVE  Faithful(w)'
    <3>1. task'["host"].pc \notin Reading \cup {"respond"}
      BY <1>0, <1>5, HostTurns DEF Moves, Turns, Reading
    <3> QED  BY <1>0, <3>1 DEF Copied
  <2>2. Passed("host") = Vars /\ req' = req
    BY <1>0, <1>5, <2>1, PassedAfter
  <2>3. Written' = Written /\ w \notin DOMAIN Written
    BY <2>1, <2>2 DEF Written, Untouched
  <2>4. CASE FillFree \/ FillDup \/ Mark
    <3>1. nvs' = nvs
      BY <1>5, <2>4 DEF FillFree, FillDup, Mark, flash, Outcome
    <3>2. Untouched(w)
      BY <2>3, <2>4 DEF Untouched, FillFree, FillDup, Mark, At
    <3>3. ram'[w] = ram[w]
      <4>1. CASE FillFree \/ FillDup
        <5>1. task["host"].i \in DOMAIN req.load \/ ram' = ram
          BY <1>0, <4>1 DEF FillFree, FillDup, DupKey, At
        <5>2. ram' = ram \/ \E p : ram' = [ram EXCEPT ![task["host"].i] = p]
          BY <1>5, <4>1 DEF FillFree, FillDup, Outcome
        <5> QED  BY <1>0, <2>3, <5>1, <5>2, WrittenKeys DEF TypeOK
      <4>2. CASE Mark
        BY <1>0, <2>3, <4>2, WrittenKeys DEF Mark, TypeOK
      <4> QED  BY <2>4, <4>1, <4>2
    <3> QED  BY <2>1, <2>2, <3>1, <3>2, <3>3 DEF Copied, Faithful
  <2>5. CASE Store
    <3>1. ram' = ram /\ task["host"].pc = "store" /\ Loop("host", "store", "print")
      BY <1>5, <2>5 DEF Store, Outcome, At
    <3>2. ~(w < task'["host"].i) /\ task'["host"].pc = "store" /\ task'["host"].i = task["host"].i + 1
      BY <1>0, <2>1, <3>1, LoopTurns DEF Untouched
    <3>3. ~(w < task["host"].i) /\ w # task["host"].i
      BY <1>0, <3>2, TableAssumption DEF Vars
    <3>4. nvs'[w] = nvs[w]
      <4>1. nvs' = nvs \/ nvs' = [nvs EXCEPT ![task["host"].i] = Seen(ram[task["host"].i])]
        BY <1>5, <2>5 DEF Store, Outcome
      <4> QED  BY <1>0, <3>3, <4>1 DEF TypeOK
    <3>5. Untouched(w)
      BY <2>3, <3>1, <3>3 DEF Untouched
    <3> QED  BY <2>1, <2>2, <3>1, <3>4, <3>5 DEF Copied, Faithful
  <2>6. CASE ~(FillFree \/ FillDup \/ Mark \/ Store)
    BY <1>0, <1>5, <2>1, <2>6, HostTurns DEF Untouched, Moves, Turns
  <2> QED  BY <2>4, <2>5, <2>6
<1> QED  BY <1>1, <1>2, <1>3, <1>4, <1>5, StepCases

-----------------------------------------------------------------------------
\* All of it.
Seeing == Known /\ StoreKnows /\ LoadGiven /\ Blanks /\ HasId /\ Copied

LEMMA InitSeeing == Init => Seeing
<1>1. Init => StoreKnows /\ LoadGiven /\ HasId /\ Copied
  BY DEF Init, StoreKnows, LoadGiven, HasId, Copied, Booted, At, BootTask, Tasks, NoReq
<1>2. Init => Blanks
  BY DEF Init, Blanks, Blank, NullPtr
<1> QED  BY <1>1, <1>2, InitKnown DEF Seeing

LEMMA NextSeeing ==
    ASSUME NoFaults, NoRemoval, NoSetNvs, Seeing, [Next]_vars
    PROVE  Seeing'
BY NextKnown, NextStoreKnows, NextBlanks, NextHasId, NextCopied DEF Seeing

\* The two modules number the variables alike.
LEMMA DeviceVars ==
    /\ Device!Variables = Vars /\ Device!Flag = InitVar /\ Device!Name = NameVar /\ Device!ID = IdVar
    /\ InitVar \in Vars /\ NameVar \in Vars /\ IdVar \in Vars /\ NumVars \in Vars
    /\ InitVar # NameVar /\ InitVar # IdVar
BY VarsFacts, TableAssumption
   DEF Device!Variables, Device!Flag, Device!Name, Device!ID, Vars, InitVar, NameVar, IdVar

\* The phases, by the request and the place of the host task.
LEMMA Phases ==
    ASSUME NEW r, NEW pc
    PROVE  /\ r.job = "write" /\ ~r.booted => PhaseOf(r, pc) = "meddling"
           /\ ~(r.job = "write" /\ ~r.booted) =>
                /\ pc = "respond" /\ r.booted => PhaseOf(r, pc) = "answering"
                /\ pc = "store" => PhaseOf(r, pc) = "storing"
                /\ pc = "data" => PhaseOf(r, pc) = "named"
                /\ pc = "print" => PhaseOf(r, pc) = "announcing"
                /\ pc \notin {"respond", "store", "data", "print"} \/ (pc = "respond" /\ ~r.booted)
                     => PhaseOf(r, pc) = IF r.job = "adv" THEN "announcing" ELSE "idle"
<1>1. CASE r.job = "write" /\ ~r.booted
  BY <1>1 DEF PhaseOf
<1>2. CASE ~(r.job = "write" /\ ~r.booted)
  BY <1>2 DEF PhaseOf
<1> QED  BY <1>1, <1>2

\* A step outside the answers changes none.
LEMMA NoAnswers ==
    ASSUME phase # "answering", phase' # "answering"
    PROVE  answer = <<>> /\ answer' = <<>> /\ answer' = answer
BY MapIs, NoAnswer

\* What is due while the host task is not in writeVariablesToNvs.
LEMMA DueSame ==
    ASSUME task'["main"] = task["main"], task["host"].pc # "store", task'["host"].pc # "store"
    PROVE  due' = due /\ boot' = boot
<1>1. DueOf(task["main"], task["host"], acked) = DueOf(task'["main"], task'["host"], acked')
  BY DEF DueOf
<1> QED  BY <1>1, MapIs

\* A reset is a restart.
LEMMA DeviceRestarts == ASSUME Seeing, Reboot PROVE Device!Restart
<1>1. /\ nvs' = nvs /\ acked' = IF At("host", "store") THEN <<>> ELSE acked
      /\ task'["main"].pc = "boot" /\ task'["host"].pc = "presync" /\ req' = NoReq
      /\ idLoss' = FALSE /\ fresh' = FALSE
      /\ gapName' = DefaultGapName /\ adv' = [flag |-> "none", id |-> 0]
  BY RebootMoves DEF Seeing, Known, Quiet, Steady, Reboot, NoAdv
<1>2. due' = {} /\ boot' = "loading"
  BY <1>1, MapIs DEF DueOf, BootOf
<1>3. phase' = "idle" /\ answer' = <<>>
  <2>1. phase' = "idle"
    BY <1>1, MapIs DEF PhaseOf, NoReq
  <2> QED  BY <2>1, MapIs, NoAnswer
<1>4. acked' = IF phase = "storing" THEN <<>> ELSE acked
  <2>1. CASE At("host", "store")
    <3>1. CASE req.job = "write" /\ ~req.booted
      BY <1>1, <2>1, <3>1 DEF Seeing, StoreKnows
    <3>2. CASE ~(req.job = "write" /\ ~req.booted)
      BY <1>1, <2>1, <3>2, MapIs DEF PhaseOf, At
    <3> QED  BY <3>1, <3>2
  <2>2. CASE ~At("host", "store")
    BY <1>1, <2>2, MapIs DEF PhaseOf, At
  <2> QED  BY <2>1, <2>2
<1> QED  BY <1>1, <1>2, <1>3, <1>4 DEF Device!Restart

\* No step loses the ID while a write is promised.
LEMMA DeviceFinds ==
    ASSUME NoFaults, NoRemoval, NoSetNvs, Seeing, [Next]_vars, ~Reboot
    PROVE  Device!Finds
<1> SUFFICES ASSUME boot # "up", DOMAIN acked # {} PROVE idLoss' = idLoss
  BY DEF Device!Finds
<1>0. TypeOK /\ Quiet /\ nvsReady /\ ~Booted /\ "host" \in Tasks /\ "main" \in Tasks
  BY KnownFacts, MapIs DEF Seeing, Known, BootOf, Booted, At
<1>1. ASSUME NEW t \in Tasks, ReadVariables(t) PROVE idLoss' = idLoss
  <2>1. task[t].pc \in {"alloc", "get"} => task[t].sz = Size[nvs[task[t].i]]
    BY <1>0 DEF Seeing, Known, AckInv, NothingToDefault
  <2>2. CASE task[t].pc = "null"
    BY <1>1, <2>2 DEF ReadVariables, ReadOpen, ReadSize, ReadAlloc, ReadGet, ReadFree, ReadNull, At, history
  <2>3. CASE task[t].pc # "null"
    BY <1>0, <1>1, <2>1, <2>3, ReadKeepsSize
  <2> QED  BY <2>2, <2>3
<1>2. CASE UNCHANGED vars
  BY <1>2 DEF vars
<1>3. CASE MainStep
  BY <1>0, <1>1, <1>3 DEF MainStep, MainBoot, MainCheck, MainDefault, history
<1>4. CASE HostStep
  BY <1>0, <1>1, <1>4, HostNotesNothing
<1> QED  BY <1>2, <1>3, <1>4, StepCases DEF Seeing

-----------------------------------------------------------------------------
\* The boot goes on behind the back of whoever uses the device.
LEMMA MainLeavesPhase ==
    ASSUME Seeing, MainStep, ~Reboot
    PROVE  /\ phase' = phase /\ answer' = answer
           /\ acked' = acked /\ fresh' = fresh /\ gapName' = gapName /\ adv' = adv
           /\ task'["host"] = task["host"] /\ req' = req /\ ~req.booted
<1>1. /\ ~Booted /\ task'["host"] = task["host"] /\ req' = req
      /\ acked' = acked /\ fresh' = fresh /\ gapName' = gapName /\ adv' = adv
  BY KnownFacts, MainMoves DEF Seeing
<1>2. ~req.booted
  BY <1>1 DEF Seeing, Known, Owned, Exclusive
<1>3. phase' = phase
  BY <1>1, MapIs
<1>4. phase # "answering"
  BY <1>2, MapIs DEF PhaseOf
<1> QED  BY <1>1, <1>2, <1>3, <1>4, NoAnswers

\* variablesAreEmpty decides whether the defaults are stored.
LEMMA DeviceChecks == ASSUME Seeing, MainCheck PROVE Device!StoreDefaults \/ Device!FinishLoading
<1>0. /\ TypeOK /\ nvsReady /\ "main" \in Tasks /\ "host" \in Tasks
      /\ task["main"].pc = "check" /\ task["main"].i = 1 /\ IdVar \in Vars
  BY KnownFacts, VarsFacts DEF Seeing, MainCheck, At, Steady, FromFirst, Reading
<1>1. /\ phase' = phase /\ answer' = answer /\ task'["host"] = task["host"]
      /\ acked' = acked /\ fresh' = fresh /\ gapName' = gapName /\ adv' = adv /\ nvs' = nvs
      /\ ~req.booted
  <2>1. ~Reboot /\ MainStep
    <3>1. task'["main"].pc \in {"defaults", "done"}
      BY <1>0 DEF MainCheck, TypeOK
    <3> QED  BY <3>1, RebootMoves DEF MainStep
  <2> QED  BY <2>1, MainLeavesPhase DEF MainCheck, flash
<1>2. boot = "loading" /\ due = DueOf(task["main"], task["host"], acked)
  BY <1>0, MapIs DEF BootOf
<1>3. CASE VariablesAreEmpty
  <2>1. task'["main"].pc = "defaults" /\ task'["main"].i = 1
    BY <1>0, <1>3 DEF MainCheck, TypeOK
  <2>2. nvs[IdVar] = Absent \/ idLoss
    BY <1>0, <1>3 DEF Seeing, Known, IdInv, IdLoaded, VariablesAreEmpty, At
  <2>3. boot' = "defaulting"
    BY <2>1, MapIs DEF BootOf
  <2>4. due' = Vars
    <3>1. \A v \in Vars : v >= 1
      BY DEF Vars
    <3> QED  BY <2>1, <3>1, MapIs DEF DueOf
  <2> QED  BY <1>1, <1>2, <2>2, <2>3, <2>4, DeviceVars DEF Device!StoreDefaults, Device!air
<1>4. CASE ~VariablesAreEmpty
  <2>1. task'["main"].pc = "done"
    BY <1>0, <1>4 DEF MainCheck, TypeOK
  <2>2. nvs[IdVar] # Absent \/ phase = "meddling"
    <3>1. ASSUME nvs[IdVar] = Absent PROVE phase = "meddling"
      <4>1. BeingStored(IdVar)
        BY <1>0, <1>4, <3>1, DeviceVars DEF Seeing, Blanks, Blank, VariablesAreEmpty
      <4>2. req.job = "write"
        BY <4>1, KnownFacts DEF Seeing, BeingStored, JobAt
      <4> QED  BY <1>1, <4>2, MapIs DEF PhaseOf
    <3> QED  BY <3>1
  <2>3. boot' = "up"
    BY <2>1, MapIs DEF BootOf
  <2>4. due' = due
    BY <1>0, <1>1, <2>1, MapIs DEF DueOf
  <2> QED  BY <1>1, <1>2, <2>2, <2>3, <2>4, DeviceVars DEF Device!FinishLoading, Device!air
<1> QED  BY <1>3, <1>4

\* One nvs_set_str of writeDefaultValues keeps one default.
LEMMA DeviceDefaults == ASSUME NoFaults, Seeing, MainDefault PROVE Device!Keep
<1> DEFINE v == task["main"].i
<1>0. /\ TypeOK /\ "main" \in Tasks /\ "host" \in Tasks /\ task["main"].pc = "defaults"
      /\ v \in Vars /\ DOMAIN acked = {} /\ Loop("main", "defaults", "done")
  BY TaskFacts, KnownFacts DEF Seeing, Known, AckInv, NothingToDefault, MainDefault, At
<1>t. \/ task'["main"].pc = "defaults" /\ v < NumVars /\ task'["main"].i = v + 1
      \/ task'["main"].pc = "done" /\ v = NumVars
  BY <1>0, LoopTurns
<1>1. /\ phase' = phase /\ answer' = answer /\ task'["host"] = task["host"]
      /\ acked' = acked /\ fresh' = fresh /\ gapName' = gapName /\ adv' = adv
  <2>1. ~Reboot /\ MainStep
    BY <1>t, RebootMoves DEF MainStep
  <2> QED  BY <2>1, MainLeavesPhase
<1>2. nvs' = [nvs EXCEPT ![v] = DefaultValue[v]]
  BY FaultFacts DEF MainDefault, WriteDefault
<1>3. boot = "defaulting" /\ due = {w \in Vars : w >= v}
  BY <1>0, MapIs DEF BootOf, DueOf
<1>4. v \in due /\ \A w \in due : v <= w
  BY <1>0, <1>3 DEF Vars
<1>5. CASE v < NumVars
  <2>1. task'["main"].pc = "defaults" /\ task'["main"].i = v + 1
    BY <1>t, <1>5, TableAssumption
  <2>2. due' = {w \in Vars : w >= v + 1} /\ boot' = "defaulting"
    BY <1>0, <1>1, <2>1, MapIs DEF BootOf, DueOf
  <2>3. due' = due \ {v} /\ due' # {}
    <3>1. v + 1 \in due' /\ \A w \in Vars : w >= v + 1 <=> w >= v /\ w # v
      BY <1>0, <1>5, <2>2, VarsFacts DEF Vars
    <3> QED  BY <1>3, <2>2, <3>1
  <2> QED  BY <1>1, <1>2, <1>3, <1>4, <2>2, <2>3 DEF Device!Keep, Device!air
<1>6. CASE v = NumVars
  <2>1. task'["main"].pc = "done"
    BY <1>t, <1>6, TableAssumption
  <2>2. due' = {} /\ boot' = "up"
    BY <1>0, <1>1, <2>1, MapIs DEF BootOf, DueOf
  <2>3. due' = due \ {v}
    BY <1>3, <1>6, <2>2, TableAssumption DEF Vars
  <2> QED  BY <1>1, <1>2, <1>3, <1>4, <2>2, <2>3 DEF Device!Keep, Device!air
<1> QED  BY <1>t, <1>5, <1>6

\* What of a step nobody sees.
Unseen == UNCHANGED <<nvs, acked, due, boot, phase, answer, fresh, gapName, adv>>

LEMMA UnseenSteps == Unseen => Device!Step
BY DEF Unseen, Device!Step, Device!air

\* app_main.
LEMMA DeviceMain ==
    ASSUME NoFaults, Seeing, MainStep, ~Reboot
    PROVE  Device!Step
<1>1. CASE MainBoot \/ ReadVariables("main")
  <2>0. TypeOK /\ "main" \in Tasks /\ nvs' = nvs
    BY <1>1, KnownFacts, ReadVariablesMoves DEF Seeing, MainBoot, flash
  <2>1. /\ task["main"].pc \notin {"defaults", "done"}
        /\ task'["main"].pc \notin {"defaults", "done"}
    BY <1>1, <2>0, ReadVariablesMoves, ReadEnds, GotoMoves DEF MainBoot, At, Return, Reading
  <2>2. due' = due /\ boot' = boot
    BY <2>1, MainLeavesPhase, MapIs DEF BootOf, DueOf
  <2> QED  BY <2>0, <2>2, MainLeavesPhase, UnseenSteps DEF Unseen
<1>2. CASE MainCheck
  BY <1>2, DeviceChecks DEF Device!Step
<1>3. CASE MainDefault
  BY <1>3, DeviceDefaults DEF Device!Step
<1> QED  BY <1>1, <1>2, <1>3 DEF MainStep

-----------------------------------------------------------------------------
(* The host task: events, reads and the table.                               *)

\* What every step of the host task may rely on.
LEMMA HostFacts ==
    ASSUME Seeing, HostStep, ~Reboot
    PROVE  /\ TypeOK /\ Steady /\ JobAt /\ "host" \in Tasks /\ "main" \in Tasks
           /\ task["host"].i \in Vars /\ nvsReady
           /\ task'["main"] = task["main"] /\ boot' = boot
           /\ req.booted => Booted /\ boot = "up"
           /\ boot = "up" <=> Booted
<1>1. task'["main"] = task["main"]
  BY KnownFacts, HostMoves DEF Seeing
<1> QED  BY <1>1, KnownFacts, MapIs DEF Seeing, Known, Owned, Exclusive, BootOf, Booted, At

\* An event or a GATT access begins an advertisement, a read or a write.
LEMMA DeviceEvents ==
    ASSUME Seeing, OnSync \/ HostEvent, ~Reboot
    PROVE  Device!Step
<1>0. HostStep /\ task["host"].pc \in {"presync", "idle"} /\ task'["host"].pc = "open"
  BY KnownFacts, GotoMoves DEF Seeing, HostStep, OnSync, HostEvent, GapEvent, GattAccess, Advertise,
     At, TypeOK
<1>1. /\ TypeOK /\ task'["main"] = task["main"] /\ boot' = boot
      /\ boot = "up" <=> Booted
      /\ req.job = "none"
  BY <1>0, HostFacts DEF JobAt
<1>2. due' = due /\ phase = "idle"
  BY <1>0, <1>1, DueSame, MapIs DEF PhaseOf
<1>3. CASE OnSync \/ GapEvent
  <2>1. /\ req' = [NoReq EXCEPT !.job = "adv", !.booted = Booted] /\ fresh' = Booted
        /\ nvs' = nvs /\ acked' = acked /\ gapName' = gapName /\ adv' = adv
    BY <1>3 DEF OnSync, GapEvent, flash, radio
  <2>2. phase' = "announcing"
    <3>1. req'.job = "adv"
      BY <2>1 DEF NoReq
    <3> QED  BY <1>0, <3>1, MapIs, Phases
  <2>3. answer' = answer
    BY <1>2, <2>2, NoAnswers
  <2>4. fresh' = (boot = "up")
    BY <1>1, <2>1 DEF Booted, At
  <2>5. Device!Renew
    BY <1>1, <1>2, <2>1, <2>2, <2>3, <2>4 DEF Device!Renew, Device!air
  <2> QED  BY <2>5 DEF Device!Step
<1>4. ASSUME NEW job \in {"read", "write"}, NEW char, NEW load, GattAccess(job, char, load)
      PROVE  Device!Step
  <2>1. /\ req' = [job |-> job, char |-> char, load |-> load, booted |-> Booted]
        /\ nvs' = nvs /\ acked' = acked /\ gapName' = gapName /\ adv' = adv /\ fresh' = fresh
    BY <1>4 DEF GattAccess, flash, radio, history
  <2>2. req'.job = job /\ req'.booted = Booted
    BY <2>1
  <2>3. CASE job = "write" /\ ~Booted
    <3>1. phase' = "meddling"
      BY <2>2, <2>3, MapIs, Phases
    <3>2. answer' = answer
      BY <1>2, <3>1, NoAnswers
    <3>3. Device!Meddle
      BY <1>1, <1>2, <2>1, <2>3, <3>1, <3>2 DEF Device!Meddle, Device!air
    <3> QED  BY <3>3 DEF Device!Step
  <2>4. CASE ~(job = "write" /\ ~Booted)
    <3>1. ~(req'.job = "write" /\ ~req'.booted) /\ req'.job # "adv"
      BY <1>4, <2>2, <2>4
    <3>2. phase' = "idle"
      BY <1>0, <3>1, MapIs, Phases
    <3>3. answer' = answer
      BY <1>2, <3>2, NoAnswers
    <3> QED  BY <1>1, <1>2, <2>1, <3>2, <3>3, UnseenSteps DEF Unseen
  <2> QED  BY <2>3, <2>4
<1> QED  BY <1>3, <1>4 DEF HostEvent

\* What a read has found is what the device keeps.
LEMMA DeviceAnswers ==
    ASSUME NoFaults, NoRemoval, NoSetNvs, Seeing, [Next]_vars, nvs' = nvs, req' = req,
           phase' = "answering", task'["host"].pc = "respond", req.booted, NEW v \in Vars
    PROVE  IF nvs[v] # Absent THEN v \in DOMAIN answer' /\ answer'[v] = nvs[v]
           ELSE v \in DOMAIN answer' => v = InitVar /\ answer'[v] = FalseStr
<1>0. Blanks' /\ Copied'
  BY NextSeeing DEF Seeing
<1>1. answer' = [u \in {w \in Vars : ram'[w].own # "null"} |-> Seen(ram'[u])]
  BY MapIs DEF AnswerOf
<1>2. CASE nvs[v] # Absent
  <2>1. v \in Passed("host")'
    BY DEF Passed, Reading
  <2>2. ram'[v].own = "heap" /\ ram'[v].val = nvs[v]
    BY <1>0, <1>2, <2>1 DEF Copied, Faithful
  <2> QED  BY <1>1, <1>2, <2>2 DEF Seen
<1>3. CASE nvs[v] = Absent
  <2>1. ram'[v].own = "null" \/ (v = InitVar /\ ram'[v] = Rodata(FalseStr))
    BY <1>0, <1>3 DEF Blanks, Blank, BeingStored
  <2> QED  BY <1>1, <1>3, <2>1 DEF Seen, Rodata
<1> QED  BY <1>2, <1>3

\* readVariablesFromNvs is unseen, but for its end in a read callback.
LEMMA DeviceReads ==
    ASSUME NoFaults, NoRemoval, NoSetNvs, Seeing, [Next]_vars, HostStep, ReadVariables("host"), ~Reboot
    PROVE  Device!Step
<1>0. /\ TypeOK /\ JobAt /\ "host" \in Tasks /\ boot' = boot /\ (req.booted => boot = "up")
      /\ task'["main"] = task["main"]
  BY HostFacts
<1>1. /\ task["host"].pc \in Reading \cup {"open"}
      /\ nvs' = nvs /\ req' = req /\ gapName' = gapName /\ adv' = adv /\ acked' = acked /\ fresh' = fresh
  BY <1>0, HostReadMoves
<1>2. /\ task["host"].pc \notin {"respond", "store", "data", "print"} /\ req.job # "none"
      /\ task'["host"].pc \in {"size", "alloc", "get", "free", "null", Return("host")}
  BY <1>0, <1>1, ReadEnds DEF JobAt, Reading
<1>3. /\ task'["host"].pc \notin {"store", "data", "print"}
      /\ task'["host"].pc = "respond" => req.job = "read"
  BY <1>2 DEF Return
<1>4. due' = due
  BY <1>0, <1>2, <1>3, DueSame
<1>5. CASE task'["host"].pc = "respond" /\ req.booted
  <2>1. phase = "idle" /\ phase' = "answering"
    BY <1>1, <1>2, <1>3, <1>5, MapIs, Phases
  <2>2. \A v \in Device!Variables :
           IF nvs[v] # Absent THEN v \in DOMAIN answer' /\ answer'[v] = nvs[v]
           ELSE v \in DOMAIN answer' => v = Device!Flag /\ answer'[v] = FalseStr
    BY <1>1, <1>5, <2>1, DeviceAnswers, DeviceVars
  <2>3. Device!Answer
    BY <1>0, <1>1, <1>4, <1>5, <2>1, <2>2 DEF Device!Answer, Device!air
  <2> QED  BY <2>3 DEF Device!Step
<1>6. CASE ~(task'["host"].pc = "respond" /\ req.booted)
  <2>1. phase' = phase /\ phase # "answering"
    <3>1. CASE req.job = "write" /\ ~req.booted
      BY <1>1, <3>1, MapIs, Phases
    <3>2. CASE ~(req.job = "write" /\ ~req.booted)
      <4>1. phase = IF req.job = "adv" THEN "announcing" ELSE "idle"
        BY <1>2, <3>2, MapIs, Phases
      <4>2. phase' = IF req.job = "adv" THEN "announcing" ELSE "idle"
        BY <1>1, <1>3, <1>6, <3>2, MapIs, Phases
      <4> QED  BY <4>1, <4>2
    <3> QED  BY <3>1, <3>2
  <2>2. answer' = answer
    BY <2>1, NoAnswers
  <2> QED  BY <1>0, <1>1, <1>4, <2>1, <2>2, UnseenSteps DEF Unseen
<1> QED  BY <1>5, <1>6

\* The read callback answers.
LEMMA DeviceResponds == ASSUME Seeing, Respond, ~Reboot PROVE Device!Step
<1>0. HostStep
  BY DEF HostStep, Callback
<1>1. /\ TypeOK /\ boot' = boot /\ task["host"].pc = "respond" /\ req.job = "read"
      /\ "host" \in Tasks /\ task'["main"] = task["main"]
  BY <1>0, HostFacts DEF Respond, At, JobAt
<1>2. /\ nvs' = nvs /\ acked' = acked /\ gapName' = gapName /\ adv' = adv /\ fresh' = fresh
      /\ req' = NoReq /\ Goto("host", "idle")
  BY DEF Respond, Outcome, flash, radio, history
<1>3. task'["host"].pc = "idle"
  BY <1>1, <1>2, GotoMoves
<1>4. due' = due /\ phase' = "idle"
  BY <1>1, <1>2, <1>3, DueSame, MapIs DEF PhaseOf, NoReq
<1>5. CASE req.booted
  <2>1. phase = "answering" /\ answer' = <<>>
    BY <1>1, <1>4, <1>5, MapIs, Phases, NoAnswer
  <2>2. Device!Answered
    BY <1>1, <1>2, <1>4, <2>1 DEF Device!Answered, Device!air
  <2> QED  BY <2>2 DEF Device!Step
<1>6. CASE ~req.booted
  <2>1. phase = "idle" /\ answer' = answer
    BY <1>1, <1>4, <1>6, MapIs, Phases, NoAnswers
  <2> QED  BY <1>1, <1>2, <1>4, <2>1, UnseenSteps DEF Unseen
<1> QED  BY <1>5, <1>6

-----------------------------------------------------------------------------
(* The host task: writes.                                                    *)

\* Filling the table is unseen.
LEMMA DeviceFills == ASSUME Seeing, FillFree \/ FillDup, ~Reboot PROVE Device!Step
<1>0. HostStep /\ ~ReadVariables("host") /\ task["host"].pc \in {"fill", "dup"}
  BY DEF HostStep, Callback, FillFree, FillDup, ReadVariables, ReadOpen,
     ReadSize, ReadAlloc, ReadGet, ReadFree, ReadNull, At
<1>1. /\ TypeOK /\ boot' = boot /\ req.job = "write"
      /\ "host" \in Tasks /\ task'["main"] = task["main"]
  BY <1>0, HostFacts DEF JobAt
<1>2. /\ nvs' = nvs /\ acked' = acked /\ gapName' = gapName /\ adv' = adv /\ fresh' = fresh
      /\ req' = req
  BY DEF FillFree, FillDup, Outcome, flash, radio, history
<1>3. task'["host"].pc \in {"fill", "dup", "mark"}
  BY <1>0, <1>1, HostTurns DEF Moves, Turns
<1>4. due' = due
  BY <1>0, <1>1, <1>3, DueSame
<1>5. phase' = phase /\ phase # "answering"
  BY <1>0, <1>1, <1>2, <1>3, MapIs, Phases
<1> QED  BY <1>1, <1>2, <1>4, <1>5, NoAnswers, UnseenSteps, SMTT(30) DEF Unseen

\* A write is accepted when all of it is in the table.
LEMMA DeviceMarks == ASSUME Seeing, Mark, ~Reboot PROVE Device!Step
<1>0. HostStep
  BY DEF HostStep, Callback
<1>1. /\ TypeOK /\ Steady /\ boot' = boot /\ task["host"].pc = "mark" /\ req.job = "write"
      /\ "host" \in Tasks /\ task'["main"] = task["main"] /\ (req.booted => Booted /\ boot = "up")
  BY <1>0, HostFacts DEF Mark, At, JobAt
<1>2. /\ nvs' = nvs /\ gapName' = gapName /\ adv' = adv /\ fresh' = fresh /\ req' = req
      /\ acked' = IF req.booted THEN Written ELSE <<>>
      /\ task' = [task EXCEPT !["host"] = [task["host"] EXCEPT !.pc = "store", !.live = nvsReady]]
  BY DEF Mark, flash, radio
<1>3. task'["host"].pc = "store" /\ task'["host"].i = 1
  <2>1. task["host"].i = 1
    BY <1>1 DEF Steady, FromFirst, Reading
  <2> QED  BY <1>1, <1>2, <2>1, TaskFacts DEF TypeOK
<1>4. CASE req.booted
  <2>1. phase = "idle" /\ phase' = "storing" /\ answer' = answer
    <3>1. phase = "idle" /\ phase' = "storing"
      BY <1>1, <1>2, <1>3, <1>4, MapIs, Phases
    <3> QED  BY <3>1, NoAnswers
  <2>2. due' = DOMAIN acked'
    <3>1. DOMAIN acked' \subseteq Vars /\ \A v \in Vars : v >= 1
      BY <1>1, <1>2, <1>4, WrittenType DEF Vars
    <3>2. task'["main"].pc # "defaults"
      BY <1>1, <1>4 DEF Booted, At
    <3> QED  BY <1>3, <3>1, <3>2, MapIs DEF DueOf
  <2>3. acked' = Device!WriteOf(req.load, req.char = "uninitialized")
    BY <1>2, <1>4, DeviceVars DEF Written, Device!WriteOf
  <2>4. req.load \in Payloads /\ (req.char = "uninitialized") \in BOOLEAN
    BY <1>1 DEF Seeing, LoadGiven
  <2>5. Device!Accept
    BY <1>1, <1>2, <1>4, <2>1, <2>2, <2>3, <2>4 DEF Device!Accept, Device!air
  <2> QED  BY <2>5 DEF Device!Step
<1>5. CASE ~req.booted
  <2>1. phase = "meddling" /\ phase' = "meddling" /\ answer' = answer
    <3>1. phase = "meddling" /\ phase' = "meddling"
      BY <1>1, <1>2, <1>5, MapIs, Phases
    <3> QED  BY <3>1, NoAnswers
  <2>2. due' = due
    <3>1. acked' = <<>>
      BY <1>2, <1>5
    <3> QED  BY <1>1, <3>1, MapIs DEF DueOf
  <2>3. Device!Spoil
    BY <1>1, <1>2, <1>5, <2>1, <2>2 DEF Device!Spoil, Device!air
  <2> QED  BY <2>3 DEF Device!Step
<1> QED  BY <1>4, <1>5

\* One turn of writeVariablesToNvs, of a write that began after the boot.
LEMMA StoreTurns ==
    ASSUME NoFaults, Seeing, Store, ~Reboot, req.booted, NEW v, v = task["host"].i
    PROVE  /\ v \in Vars /\ phase = "storing" /\ boot = "up" /\ boot' = "up"
           /\ acked' = acked /\ fresh' = fresh /\ gapName' = gapName /\ adv' = adv
           /\ answer' = answer
           /\ acked = Written /\ DOMAIN acked \subseteq Vars
           /\ due = {w \in DOMAIN acked : w >= v}
           /\ due' = {w \in DOMAIN acked : w >= v + 1}
           /\ IF v < NumVars THEN phase' = "storing" ELSE phase' = "announcing" /\ due' = {}
           /\ nvs' = IF ram[v].own = "null" THEN nvs ELSE [nvs EXCEPT ![v] = Seen(ram[v])]
<1>0. HostStep /\ ~ReadVariables("host") /\ task["host"].pc = "store"
  BY DEF HostStep, Callback, Store, ReadVariables, ReadOpen,
     ReadSize, ReadAlloc, ReadGet, ReadFree, ReadNull, At
<1>1. /\ TypeOK /\ boot' = "up" /\ boot = "up" /\ Booted /\ req.job = "write" /\ v \in Vars
      /\ "host" \in Tasks /\ task'["main"] = task["main"] /\ nvsReady
  BY <1>0, HostFacts DEF JobAt
<1>2. /\ acked' = acked /\ fresh' = fresh /\ gapName' = gapName /\ adv' = adv /\ req' = req
      /\ Loop("host", "store", "print")
  BY DEF Store, Outcome, radio, history
<1>3. acked = Written /\ DOMAIN acked \subseteq Vars
  BY <1>0, <1>1, WrittenType DEF Seeing, StoreKnows, At
<1>4. task["main"].pc # "defaults" /\ task'["main"].pc # "defaults"
  BY <1>1 DEF Booted, At
<1>5. due = {w \in DOMAIN acked : w >= v}
  BY <1>0, <1>3, <1>4, MapIs DEF DueOf
<1>6. phase = "storing"
  BY <1>0, MapIs, Phases
<1>7. nvs' = IF ram[v].own = "null" THEN nvs ELSE [nvs EXCEPT ![v] = Seen(ram[v])]
  <2>1. Usable("host")
    BY <1>0, <1>1 DEF Seeing, Known, AckInv, StoreHolds, At, Usable
  <2> QED  BY <2>1, FaultFacts DEF Store, Outcome, WrittenBack
<1>8. CASE v < NumVars
  <2>1. task'["host"].pc = "store" /\ task'["host"].i = v + 1
    BY <1>1, <1>2, <1>8, LoopTurns, TableAssumption
  <2>2. due' = {w \in DOMAIN acked : w >= v + 1}
    BY <1>2, <1>3, <1>4, <2>1, MapIs DEF DueOf
  <2>3. phase' = "storing"
    BY <1>2, <2>1, MapIs, Phases
  <2> QED  BY <1>1, <1>2, <1>3, <1>5, <1>6, <1>7, <1>8, <2>2, <2>3, NoAnswers
<1>9. CASE v = NumVars
  <2>0. ~(v < NumVars)
    BY <1>9, TableAssumption
  <2>1. task'["host"].pc = "print"
    BY <1>1, <1>2, <2>0, LoopTurns
  <2>2. due' = {}
    BY <1>4, <2>1, MapIs DEF DueOf
  <2>3. due' = {w \in DOMAIN acked : w >= v + 1}
    BY <1>3, <1>9, <2>2, TableAssumption DEF Vars
  <2>4. phase' = "announcing"
    BY <1>2, <2>1, MapIs, Phases
  <2> QED  BY <1>1, <1>2, <1>3, <1>5, <1>6, <1>7, <2>0, <2>2, <2>3, <2>4, NoAnswers
<1> QED  BY <1>1, <1>8, <1>9, TableAssumption DEF Vars

\* One nvs_set_str of writeVariablesToNvs keeps one variable of the write, stores a
\* missing flag, or stores what NVS holds already.
LEMMA DeviceStores ==
    ASSUME NoFaults, NoRemoval, NoSetNvs, Seeing, [Next]_vars, Store, ~Reboot
    PROVE  Device!Step
<1>0. HostStep /\ task["host"].pc = "store"
  BY DEF HostStep, Callback, Store, At
<1>a. PICK v \in Vars : v = task["host"].i
  BY <1>0, HostFacts
<1>1. CASE ~req.booted
  <2>1. /\ TypeOK /\ boot' = boot /\ req.job = "write" /\ Steady
        /\ "host" \in Tasks /\ task'["main"] = task["main"]
    BY <1>0, HostFacts DEF JobAt
  <2>2. /\ acked' = acked /\ gapName' = gapName /\ adv' = adv /\ fresh' = fresh /\ req' = req
        /\ acked = <<>>
    BY <1>0, <1>1 DEF Store, Outcome, radio, history, Seeing, StoreKnows, At
  <2>3. phase = "meddling" /\ phase' = "meddling"
    BY <1>1, <2>1, <2>2, MapIs, Phases
  <2>4. due' = due
    BY <2>1, <2>2, MapIs DEF DueOf
  <2>5. \A w \in Device!Variables : nvs[w] # Absent => nvs'[w] # Absent
    BY <2>1, KeysStay, DeviceVars
  <2>6. Device!Spoil
    BY <2>1, <2>2, <2>3, <2>4, <2>5, NoAnswers DEF Device!Spoil, Device!air
  <2> QED  BY <2>6 DEF Device!Step
<1>2. CASE req.booted /\ v \in DOMAIN acked
  <2>1. nvs' = [nvs EXCEPT ![v] = acked[v]]
    <3>1. ram[v].own \in {"heap", "rodata"} /\ ram[v].val = acked[v]
      <4>1. ~(v < task["host"].i)
        BY <1>a, TableAssumption DEF Vars
      <4> QED  BY <1>0, <1>2, <4>1 DEF Seeing, Known, AckInv, StoreHolds, At
    <3>2. Seen(ram[v]) = acked[v]
      BY <3>1 DEF Seen
    <3> QED  BY <1>a, <1>2, <3>1, <3>2, StoreTurns
  <2>2. v \in due /\ (\A w \in due : v <= w) /\ due' = due \ {v}
    <3>1. DOMAIN acked \subseteq Nat /\ v \in Nat
      BY <1>a, <1>2, StoreTurns, VarsFacts
    <3>2. \A w \in DOMAIN acked : w >= v + 1 <=> w >= v /\ w # v
      BY <3>1
    <3> QED  BY <1>a, <1>2, <3>1, <3>2, StoreTurns
  <2>3. Device!Keep
    BY <1>a, <1>2, <2>1, <2>2, StoreTurns DEF Device!Keep, Device!air
  <2> QED  BY <2>3 DEF Device!Step
<1>3. CASE req.booted /\ v \notin DOMAIN acked
  <2>1. due' = due
    <3>1. DOMAIN acked \subseteq Nat /\ v \in Nat
      BY <1>a, <1>3, StoreTurns, VarsFacts
    <3>2. \A w \in DOMAIN acked : w >= v + 1 <=> w >= v
      BY <1>3, <3>1
    <3> QED  BY <1>a, <1>3, <3>2, StoreTurns
  <2>2. CASE ram[v].own = "null" \/ nvs[v] # Absent
    <3>1. nvs' = nvs
      <4>1. CASE ram[v].own = "null"
        BY <1>a, <1>3, <4>1, StoreTurns
      <4>2. CASE nvs[v] # Absent
        <5>1. Untouched(v) /\ v \in Passed("host")
          BY <1>a, <1>0, <1>3, StoreTurns, TableAssumption DEF Untouched, Passed, Reading, Vars
        <5>2. ram[v].own = "heap" /\ ram[v].val = nvs[v]
          BY <1>3, <4>2, <5>1 DEF Seeing, Copied, Faithful
        <5>3. nvs' = [nvs EXCEPT ![v] = nvs[v]]
          BY <1>a, <1>3, <5>2, StoreTurns DEF Seen
        <5> QED  BY <5>3, KnownFacts DEF Seeing, TypeOK
      <4> QED  BY <2>2, <4>1, <4>2
    <3>2. CASE v < NumVars
      BY <1>a, <1>3, <2>1, <3>1, <3>2, StoreTurns, UnseenSteps DEF Unseen
    <3>3. CASE ~(v < NumVars)
      <4>1. Device!Stored
        BY <1>a, <1>3, <2>1, <3>1, <3>3, StoreTurns DEF Device!Stored, Device!air
      <4> QED  BY <4>1 DEF Device!Step
    <3> QED  BY <3>2, <3>3
  <2>3. CASE ram[v].own # "null" /\ nvs[v] = Absent
    <3>1. v = InitVar /\ ram[v] = Rodata(FalseStr)
      BY <1>a, <1>3, <2>3, StoreTurns DEF Seeing, Blanks, Blank, BeingStored
    <3>2. nvs' = [nvs EXCEPT ![InitVar] = FalseStr]
      BY <1>a, <1>3, <2>3, <3>1, StoreTurns DEF Seen, Rodata
    <3>3. v < NumVars
      BY <3>1, TableAssumption DEF InitVar
    <3>4. Device!KeepFlag
      BY <1>a, <1>3, <2>1, <2>3, <3>1, <3>2, <3>3, StoreTurns, DeviceVars DEF Device!KeepFlag, Device!air
    <3> QED  BY <3>4 DEF Device!Step
  <2> QED  BY <2>2, <2>3
<1> QED  BY <1>1, <1>2, <1>3

-----------------------------------------------------------------------------
(* The host task: the advertisement.                                         *)

\* A write callback ends with an advertisement.
LEMMA DeviceLogs == ASSUME Seeing, LogTable, ~Reboot PROVE Device!Step
<1>0. HostStep /\ task["host"].pc = "print"
  BY DEF HostStep, Callback, LogTable, At
<1>1. /\ TypeOK /\ boot' = boot /\ (boot = "up" <=> Booted) /\ req.job = "write"
      /\ "host" \in Tasks /\ task'["main"] = task["main"]
  BY <1>0, HostFacts DEF JobAt
<1>2. /\ nvs' = nvs /\ acked' = acked /\ gapName' = gapName /\ adv' = adv /\ fresh' = Booted
      /\ Advertise /\ req' = [req EXCEPT !.job = "adv"]
  BY DEF LogTable, Outcome, flash, radio
<1>3. task'["host"].pc = "open" /\ req'.job = "adv"
  BY <1>1, <1>2 DEF Advertise, TypeOK
<1>4. due' = due
  BY <1>0, <1>1, <1>3, DueSame
<1>5. phase' = "announcing" /\ phase = IF req.booted THEN "announcing" ELSE "meddling"
  BY <1>0, <1>1, <1>3, MapIs, Phases
<1>6. boot = "up" => nvs[IdVar] # Absent
  BY <1>0, <1>1 DEF Seeing, HasId
<1>7. answer' = answer
  BY <1>5, NoAnswers
<1>8. fresh' = (boot = "up")
  BY <1>1, <1>2 DEF Booted, At
<1>9. Device!Renew
  BY <1>1, <1>2, <1>4, <1>5, <1>6, <1>7, <1>8, DeviceVars DEF Device!Renew, Device!air
<1> QED  BY <1>9 DEF Device!Step

\* What the table holds for an advertisement that began after the boot.
LEMMA AdvSees ==
    ASSUME Seeing, fresh, task["host"].pc \in {"name", "data"}, NEW v \in Vars
    PROVE  /\ nvs[v] # Absent => ram[v].own = "heap" /\ ram[v].val = nvs[v]
           /\ nvs[v] = Absent => \/ ram[v].own = "null"
                                 \/ v = InitVar /\ ram[v] = Rodata(FalseStr)
<1>1. req.job = "adv" /\ v \in Passed("host")
  BY KnownFacts DEF Seeing, JobAt, Passed, Reading
<1>2. nvs[v] # Absent => ram[v].own = "heap" /\ ram[v].val = nvs[v]
  BY <1>1 DEF Seeing, Known, AdvInv, FreshInv, Loading
<1>3. ~BeingStored(v)
  BY DEF BeingStored
<1> QED  BY <1>2, <1>3 DEF Seeing, Blanks, Blank

\* ble_svc_gap_device_name_set.
LEMMA DeviceNames == ASSUME Seeing, AdvName, ~Reboot PROVE Device!Step
<1>0. HostStep /\ task["host"].pc = "name"
  BY DEF HostStep, Callback, AdvName, At
<1>1. /\ TypeOK /\ boot' = boot /\ req.job = "adv"
      /\ "host" \in Tasks /\ task'["main"] = task["main"]
  BY <1>0, HostFacts DEF JobAt
<1>2. /\ nvs' = nvs /\ acked' = acked /\ adv' = adv /\ fresh' = fresh
      /\ Goto("host", "data") /\ req' = req
      /\ gapName' \in IF ram[NameVar].own = "null" THEN {gapName}
                      ELSE IF Seen(ram[NameVar]) = Garbage THEN {gapName, Garbage}
                      ELSE IF Seen(ram[NameVar]) \in GapNames THEN {Seen(ram[NameVar])} ELSE {gapName}
  BY DEF AdvName, Outcome, flash, history
<1>3. task'["host"].pc = "data"
  BY <1>1, <1>2, GotoMoves
<1>4. due' = due
  BY <1>0, <1>1, <1>3, DueSame
<1>5. phase = "announcing" /\ phase' = "named"
  BY <1>0, <1>1, <1>2, <1>3, MapIs, Phases
<1>6. answer' = answer
  BY <1>5, NoAnswers
<1>7. ASSUME fresh
      PROVE  gapName' \in IF nvs[NameVar] \in GapNames THEN {nvs[NameVar]}
                          ELSE IF nvs[NameVar] \in Strings \cup {Absent} THEN {gapName}
                          ELSE {gapName, nvs[NameVar]}
  <2>0. NameVar \in Vars /\ NameVar # InitVar /\ nvs[NameVar] \in Strings \cup {Absent, Garbage}
    BY <1>1, DeviceVars DEF TypeOK, Stored
  <2>1. CASE nvs[NameVar] = Absent
    <3>1. gapName' = gapName
      BY <1>0, <1>2, <1>7, <2>0, <2>1, AdvSees
    <3>2. Absent \notin GapNames
      BY StringAssumption
    <3> QED  BY <2>1, <3>1, <3>2
  <2>2. CASE nvs[NameVar] # Absent
    <3>1. ram[NameVar].own = "heap" /\ Seen(ram[NameVar]) = nvs[NameVar]
      BY <1>0, <1>7, <2>0, <2>2, AdvSees DEF Seen
    <3>2. gapName' \in IF nvs[NameVar] = Garbage THEN {gapName, Garbage}
                       ELSE IF nvs[NameVar] \in GapNames THEN {nvs[NameVar]} ELSE {gapName}
      BY <1>2, <3>1
    <3>3. Garbage \notin Strings \cup {Absent} /\ Garbage \notin GapNames
      BY StringAssumption
    <3> QED  BY <2>0, <2>2, <3>2, <3>3
  <2> QED  BY <2>1, <2>2
<1>8. Device!SetName
  BY <1>1, <1>2, <1>4, <1>5, <1>6, <1>7, DeviceVars DEF Device!SetName
<1> QED  BY <1>8 DEF Device!Step

\* ble_gap_adv_set_fields.
LEMMA DeviceAnnounces == ASSUME Seeing, AdvData, ~Reboot PROVE Device!Step
<1> DEFINE flag == ram[InitVar]
           id == ram[IdVar]
           seen == ManufacturerData(Seen(flag), Seen(id))
<1>0. HostStep /\ task["host"].pc = "data"
  BY DEF HostStep, Callback, AdvData, At
<1>1. /\ TypeOK /\ boot' = boot /\ req.job = "adv"
      /\ "host" \in Tasks /\ task'["main"] = task["main"]
  BY <1>0, HostFacts DEF JobAt
<1>2. /\ nvs' = nvs /\ acked' = acked /\ gapName' = gapName /\ fresh' = fresh
      /\ Goto("host", "idle") /\ req' = NoReq
      /\ adv' \in IF gapName \in AdvNames THEN {seen}
                  ELSE IF gapName = Garbage THEN {seen, adv} ELSE {adv}
  BY DEF AdvData, Outcome, flash, history
<1>3. flag.own # "null" /\ (Seen(flag) = TrueStr => id.own # "null")
  BY DEF AdvData, Outcome, Fatal
<1>4. task'["host"].pc = "idle"
  BY <1>1, <1>2, GotoMoves
<1>5. due' = due
  BY <1>0, <1>1, <1>4, DueSame
<1>6. phase = "named" /\ phase' = "idle"
  <2>1. phase = "named"
    BY <1>0, <1>1, MapIs, Phases
  <2>2. phase' = "idle"
    BY <1>2, <1>4, MapIs DEF PhaseOf, NoReq
  <2> QED  BY <2>1, <2>2
<1>7. answer' = answer
  BY <1>6, NoAnswers
<1>8. ASSUME fresh
      PROVE  seen = Device!Data(nvs[InitVar], nvs[IdVar])
  <2>0. /\ InitVar \in Vars /\ IdVar \in Vars /\ IdVar # InitVar
        /\ nvs[InitVar] \in Strings \cup {Absent, Garbage} /\ nvs[IdVar] \in Strings \cup {Absent, Garbage}
    BY <1>1, DeviceVars DEF TypeOK, Stored
  <2>s. /\ TrueStr \in Strings /\ FalseStr \in Strings /\ TrueStr # FalseStr
        /\ Absent \notin Strings /\ Garbage \notin Strings /\ Absent # Garbage
    BY StringAssumption
  <2>1. CASE nvs[InitVar] = Absent
    <3>1. Seen(flag) = FalseStr
      BY <1>0, <1>3, <1>8, <2>0, <2>1, AdvSees DEF Seen, Rodata
    <3> QED  BY <2>1, <2>s, <3>1 DEF ManufacturerData, Device!Data
  <2>2. CASE nvs[InitVar] # Absent
    <3>1. Seen(flag) = nvs[InitVar]
      BY <1>0, <1>8, <2>0, <2>2, AdvSees DEF Seen
    <3>2. CASE Seen(flag) = TrueStr
      <4>1. nvs[IdVar] # Absent
        BY <1>0, <1>3, <1>8, <2>0, <3>2, AdvSees
      <4>2. Seen(id) = nvs[IdVar]
        BY <1>0, <1>8, <2>0, <4>1, AdvSees DEF Seen
      <4> QED  BY <2>s, <3>1, <3>2, <4>2 DEF ManufacturerData, Junk, Device!Data
    <3>3. CASE Seen(flag) # TrueStr
      BY <2>2, <2>s, <3>1, <3>3 DEF ManufacturerData, Junk, Device!Data
    <3> QED  BY <3>2, <3>3
  <2> QED  BY <2>1, <2>2
<1>9. ASSUME fresh
      PROVE  adv' \in IF gapName \in AdvNames THEN {Device!Data(nvs[InitVar], nvs[IdVar])}
                      ELSE IF gapName \in Strings THEN {adv}
                      ELSE {adv, Device!Data(nvs[InitVar], nvs[IdVar])}
  <2>1. Garbage \notin Strings /\ GapNames \subseteq Strings /\ gapName \in GapNames \cup {Garbage}
    BY <1>1, StringAssumption DEF TypeOK
  <2>2. seen = Device!Data(nvs[InitVar], nvs[IdVar])
    BY <1>8, <1>9
  <2> HIDE DEF seen
  <2> QED  BY <1>2, <2>1, <2>2
<1>10. Device!Announce
  BY <1>1, <1>2, <1>5, <1>6, <1>7, <1>9, DeviceVars DEF Device!Announce
<1> QED  BY <1>10 DEF Device!Step

-----------------------------------------------------------------------------
(* The refinement.                                                           *)

LEMMA DeviceInit == Init => Device!Init
<1> SUFFICES ASSUME Init PROVE Device!Init
  OBVIOUS
<1>1. /\ nvs \in FlashImages /\ acked = <<>> /\ idLoss = FALSE /\ fresh = FALSE
      /\ gapName = DefaultGapName /\ adv = [flag |-> "none", id |-> 0]
      /\ task["main"].pc = "boot" /\ task["host"].pc = "presync" /\ req.job = "none"
  BY DEF Init, NoAdv, NoReq, BootTask, Tasks
<1>2. due = {} /\ boot = "loading" /\ phase = "idle"
  BY <1>1, MapIs DEF DueOf, BootOf, PhaseOf
<1>3. answer = <<>>
  BY <1>2, MapIs, NoAnswer
<1> QED  BY <1>1, <1>2, <1>3 DEF Device!Init

\* Every step is a step of the device that a central sees, or none.
LEMMA DeviceNext ==
    ASSUME NoFaults, NoRemoval, NoSetNvs, Seeing, [Next]_vars
    PROVE  [Device!Next]_(Device!vars)
<1>1. CASE UNCHANGED vars
  <2>1. UNCHANGED <<nvs, acked, req, task, ram, idLoss, fresh, gapName, adv>>
    BY <1>1 DEF vars
  <2>2. UNCHANGED <<due, boot, phase, answer>>
    BY <2>1, MapIs
  <2> QED  BY <2>1, <2>2 DEF Device!vars, Device!air
<1>2. CASE Reboot
  BY <1>2, DeviceRestarts DEF Device!Next
<1>3. CASE MainStep /\ ~Reboot
  BY <1>3, DeviceMain, DeviceFinds DEF Device!Next
<1>4. CASE HostStep /\ ~Reboot /\ ReadVariables("host")
  BY <1>4, DeviceReads, DeviceFinds DEF Device!Next
<1>5. CASE HostStep /\ ~Reboot /\ ~ReadVariables("host")
  <2>1. Device!Step
    BY <1>5, DeviceEvents, DeviceResponds, DeviceFills, DeviceMarks, DeviceStores,
       DeviceLogs, DeviceNames, DeviceAnnounces DEF HostStep, Callback
  <2> QED  BY <1>5, <2>1, DeviceFinds DEF Device!Next
<1> QED  BY <1>1, <1>2, <1>3, <1>4, <1>5, StepCases DEF Seeing

\* Whatever the payloads, wherever the power fails and however the two tasks
\* interleave: as long as no call fails and the console leaves NVS alone, what a
\* central reads, writes and scans is the behaviour of ProvisionedDevice: a write
\* that begins after the boot is stored variable by variable in order, or is not
\* promised; a read answers with what is stored; an advertisement that began after
\* the boot says what is stored; and only a write that began during the boot spoils
\* any of this (main/ble.c:6-79, 160-191, main/myRemoteDevice.c:46-104, 117-142,
\* 163-173).
THEOREM DeviceBehaves == ASSUME NoFaults, NoRemoval, NoSetNvs PROVE Spec => BehavesAsDevice
<1>1. Seeing /\ [Next]_vars => Seeing'
  BY NextSeeing
<1>2. Seeing /\ [Next]_vars => [Device!Next]_(Device!vars)
  BY DeviceNext
<1> QED  BY <1>1, <1>2, InitSeeing, DeviceInit, PTL DEF Spec, BehavesAsDevice, Device!Spec
=============================================================================
