------------------------- MODULE Provisioning_proofs ------------------------
(* Proofs about Provisioning, for every table, every set of strings, every   *)
(* payload, every fault and any number of resets.                            *)
EXTENDS Provisioning, TLAPS

-----------------------------------------------------------------------------
(* The operators the actions are built from.                               *)

LEMMA VarsFacts == /\ Vars \subseteq Nat /\ InitVar \in Vars /\ NameVar \in Vars /\ IdVar \in Vars
                   /\ \A i \in Vars : i < NumVars => i + 1 \in Vars
BY TableAssumption DEF Vars, InitVar, NameVar, IdVar

LEMMA PointerFacts ==
    /\ NullPtr \in Pointers
    /\ \A s \in Strings : Rodata(s) \in Pointers
    /\ \A s \in Strings \cup {Garbage}, n \in Nat : Heap(s, n) \in Pointers
    /\ \A n \in Nat : NewBuffer(n) \in Pointers
    /\ \A p \in Pointers : Released(p) \in Pointers
    /\ \A p \in Pointers : Seen(p) \in Strings \cup {Garbage}
BY DEF NullPtr, Rodata, Heap, NewBuffer, Released, Seen, Pointers

\* Task t goes on to a valid place in its loop.
LEMMA LoopType ==
    ASSUME TypeOK, NEW t \in Tasks, NEW again \in PCs, NEW exit \in PCs, Loop(t, again, exit)
    PROVE  task' \in [Tasks -> [pc : PCs, i : Vars, sz : Nat, live : BOOLEAN]]
<1>1. IF task[t].i < NumVars
      THEN [pc |-> again, i |-> task[t].i + 1, sz |-> 0, live |-> task[t].live]
             \in [pc : PCs, i : Vars, sz : Nat, live : BOOLEAN]
      ELSE [pc |-> exit, i |-> 1, sz |-> 0, live |-> FALSE]
             \in [pc : PCs, i : Vars, sz : Nat, live : BOOLEAN]
  BY VarsFacts DEF TypeOK, InitVar
<1> QED  BY <1>1 DEF Loop, TypeOK

LEMMA GotoType ==
    ASSUME TypeOK, NEW t \in Tasks, NEW p \in PCs, Goto(t, p)
    PROVE  task' \in [Tasks -> [pc : PCs, i : Vars, sz : Nat, live : BOOLEAN]]
<1>1. [task[t] EXCEPT !.pc = p] \in [pc : PCs, i : Vars, sz : Nat, live : BOOLEAN]
  BY SMTT(90) DEF TypeOK
<1>2. task' = [task EXCEPT ![t] = [task[t] EXCEPT !.pc = p]]
  BY DEF Goto
<1> QED  BY <1>1, <1>2 DEF TypeOK

LEMMA ReturnType == \A t \in Tasks : Return(t) \in PCs
BY DEF Return, PCs

\* What an erase leaves is NVS with keys missing.
LEMMA SurvivorsType == ASSUME nvs \in [Vars -> Stored] PROVE Survivors \subseteq [Vars -> Stored]
BY DEF Survivors, Stored

\* A reboot leaves a state of the right types.
LEMMA RebootType ==
    ASSUME TypeOK, Reboot, resets' \in 0 .. MaxResets,
           misuse' \subseteq Misuses
    PROVE  TypeOK'
<1>1. task' \in [Tasks -> [pc : PCs, i : Vars, sz : Nat, live : BOOLEAN]]
  BY VarsFacts DEF Reboot, BootTask, PCs, InitVar
<1>2. ram' \in [Vars -> Pointers]
  BY PointerFacts DEF Reboot
<1>3. req' \in [job : {"none", "adv", "read", "write"},
                char : {"none", "uninitialized", "initialized"},
                load : Payloads \cup {<<>>}, booted : BOOLEAN]
  BY DEF Reboot, NoReq
<1>4. adv' \in [flag : {"none", "junk", "initialized", "uninitialized"}, id : 0 .. 255]
  BY DEF Reboot, NoAdv
<1>5. gapName' \in GapNames \cup {Garbage}
  BY StringAssumption DEF Reboot
<1>6. DOMAIN acked' \subseteq Vars /\ \A v \in DOMAIN acked' : acked'[v] \in Strings
  BY DEF Reboot, TypeOK
<1>7. nvs' \in [Vars -> Stored]
  BY SurvivorsType DEF Reboot, TypeOK
<1> QED  BY <1>1, <1>2, <1>3, <1>4, <1>5, <1>6, <1>7 DEF Reboot, TypeOK

\* Whatever kinds of misuse a step is exposed to, the history keeps its type.
LEMMA MisuseType ==
    ASSUME TypeOK, NEW kinds \in SUBSET Misuses,
           misuse' = IF req.booted THEN misuse \cup kinds ELSE misuse
    PROVE  misuse' \subseteq Misuses
BY DEF TypeOK

LEMMA MisuseKinds ==
    /\ \A p \in Pointers : FreeMisuse(p) \in SUBSET Misuses /\ ReadMisuse(p) \in SUBSET Misuses
    /\ \A p \in Pointers, n \in Nat : FillMisuse(p, n) \in SUBSET Misuses
BY DEF FreeMisuse, ReadMisuse, FillMisuse, Misuses, Fatal, Pointers

-----------------------------------------------------------------------------
(* The steps.                                                              *)

LEMMA InitType == Init => TypeOK
<1> SUFFICES ASSUME Init PROVE TypeOK
  OBVIOUS
<1>1. task \in [Tasks -> [pc : PCs, i : Vars, sz : Nat, live : BOOLEAN]]
  BY VarsFacts DEF Init, BootTask, PCs, InitVar
<1>2. ram \in [Vars -> Pointers]
  BY PointerFacts DEF Init
<1>3. req \in [job : {"none", "adv", "read", "write"},
               char : {"none", "uninitialized", "initialized"},
               load : Payloads \cup {<<>>}, booted : BOOLEAN]
  BY DEF Init, NoReq
<1>4. adv \in [flag : {"none", "junk", "initialized", "uninitialized"}, id : 0 .. 255]
  BY DEF Init, NoAdv
<1>5. gapName \in GapNames \cup {Garbage}
  BY StringAssumption DEF Init
<1>6. DOMAIN acked \subseteq Vars /\ \A v \in DOMAIN acked : acked[v] \in Strings
  BY DEF Init
<1>7. nvs \in [Vars -> Stored] /\ resets \in 0 .. MaxResets
  BY EnvironmentAssumption DEF Init, Stored
<1> QED  BY <1>1, <1>2, <1>3, <1>4, <1>5, <1>6, <1>7 DEF Init, TypeOK

\* A free, in readVariablesFromNvs or in fillVariblseFromJsonString.
LEMMA ReleaseType ==
    ASSUME TypeOK, NEW t \in Tasks, NEW v \in Vars, NEW p \in PCs, resets' = resets,
           Outcome(FreeMisuse(ram[v]),
                /\ ram' = [ram EXCEPT ![v] = Released(@)]
                /\ Goto(t, p)
                /\ UNCHANGED <<flash, req, radio, repl, history>>)
    PROVE  TypeOK'
<1>1. ram[v] \in Pointers
  BY DEF TypeOK
<1>2. misuse' \subseteq Misuses
  BY <1>1, MisuseKinds, MisuseType DEF Outcome
<1>3. CASE Reboot
  BY <1>2, <1>3, RebootType DEF TypeOK
<1>4. CASE ~Reboot
  <2>1. /\ ram' = [ram EXCEPT ![v] = Released(ram[v])]
        /\ Goto(t, p)
        /\ UNCHANGED <<flash, req, radio, repl, history>>
    BY <1>4 DEF Outcome
  <2>2. task' \in [Tasks -> [pc : PCs, i : Vars, sz : Nat, live : BOOLEAN]]
    BY <2>1, GotoType
  <2>3. ram' \in [Vars -> Pointers]
    BY <1>1, <2>1, PointerFacts DEF TypeOK
  <2> QED  BY <1>2, <2>1, <2>2, <2>3 DEF TypeOK, flash, radio, history
<1> QED  BY <1>3, <1>4

\* Every step of readVariablesFromNvs, in either task.
LEMMA ReadVariablesType ==
    ASSUME TypeOK, NEW t \in Tasks, ReadVariables(t), resets' = resets
    PROVE  TypeOK'
<1> DEFINE TaskOK == task' \in [Tasks -> [pc : PCs, i : Vars, sz : Nat, live : BOOLEAN]]
<1> USE DEF flash, radio, history
<1>0. Return(t) \in PCs /\ {"size", "alloc", "get", "free", "null"} \subseteq PCs
      /\ task[t] \in [pc : PCs, i : Vars, sz : Nat, live : BOOLEAN]
      /\ task[t].i \in Vars /\ task[t].sz \in Nat /\ ram[task[t].i] \in Pointers
  BY ReturnType DEF PCs, TypeOK
<1>1. CASE ReadOpen(t)
  <2>1. TaskOK
    <3>1. IF nvsReady THEN "size" \in PCs ELSE Return(t) \in PCs
      BY <1>0
    <3>2. [task[t] EXCEPT !.pc = IF nvsReady THEN "size" ELSE Return(t), !.live = nvsReady]
             \in [pc : PCs, i : Vars, sz : Nat, live : BOOLEAN]
      BY <1>0, <3>1 DEF TypeOK
    <3>3. task' = [task EXCEPT ![t] =
                     [task[t] EXCEPT !.pc = IF nvsReady THEN "size" ELSE Return(t), !.live = nvsReady]]
      BY <1>1 DEF ReadOpen
    <3> QED  BY <3>2, <3>3 DEF TypeOK
  <2> QED  BY <1>1, <2>1 DEF ReadOpen, TypeOK
<1>2. CASE ReadSize(t)
  <2>1. CASE Usable(t) /\ nvs[task[t].i] # Absent
    <3>1. Size[nvs[task[t].i]] \in Nat
      BY <1>0, <2>1, StringAssumption, SMTT(30) DEF TypeOK, Stored
    <3>2. [task[t] EXCEPT !.pc = "alloc", !.sz = Size[nvs[task[t].i]]]
             \in [pc : PCs, i : Vars, sz : Nat, live : BOOLEAN]
      BY <1>0, <3>1
    <3>3. task' = [task EXCEPT ![t] = [task[t] EXCEPT !.pc = "alloc", !.sz = Size[nvs[task[t].i]]]]
      BY <1>2, <2>1 DEF ReadSize
    <3> QED  BY <1>2, <3>2, <3>3 DEF ReadSize, TypeOK
  <2>2. CASE ~(Usable(t) /\ nvs[task[t].i] # Absent)
    <3>1. Loop(t, "size", Return(t))
      BY <1>2, <2>2 DEF ReadSize
    <3>2. TaskOK
      BY <1>0, <3>1, LoopType
    <3> QED  BY <1>2, <3>2 DEF ReadSize, TypeOK
  <2> QED  BY <2>1, <2>2
<1>3. CASE ReadAlloc(t)
  <2>1. TaskOK
    BY <1>0, <1>3, LoopType, GotoType DEF ReadAlloc
  <2>2. ram' \in [Vars -> Pointers]
    BY <1>0, <1>3, PointerFacts, SMTT(30) DEF ReadAlloc, TypeOK
  <2>3. idLoss' \in BOOLEAN
    BY <1>3 DEF ReadAlloc, TypeOK
  <2>4. UNCHANGED <<flash, req, radio, repl, misuse, acked, fresh>>
    BY <1>3 DEF ReadAlloc
  <2> QED  BY <2>1, <2>2, <2>3, <2>4 DEF TypeOK
<1>4. CASE ReadGet(t)
  <2> DEFINE v == task[t].i
             fits == Usable(t) /\ nvs[v] # Absent /\ Size[nvs[v]] <= task[t].sz
             filled == IF ram[v].own = "heap" THEN [ram EXCEPT ![v].val = nvs[v]] ELSE ram
  <2>1. CASE fits
    <3>1. nvs[v] \in Strings \cup {Garbage} /\ Size[nvs[v]] \in Nat
      BY <1>0, <2>1, StringAssumption, SMTT(30) DEF TypeOK, Stored
    <3>2. FillMisuse(ram[v], Size[nvs[v]]) \in SUBSET Misuses
      BY <1>0, <3>1, MisuseKinds
    <3>3. misuse' \subseteq Misuses
      BY <1>4, <2>1, <3>2, MisuseType DEF ReadGet, Outcome
    <3>4. CASE Reboot
      BY <3>3, <3>4, RebootType DEF TypeOK
    <3>5. CASE ~Reboot
      <4>1. /\ ram' = filled
            /\ Loop(t, "size", Return(t))
            /\ UNCHANGED <<flash, req, radio, repl, history>>
        BY <1>4, <2>1, <3>5 DEF ReadGet, Outcome
      <4>2. TaskOK
        BY <1>0, <4>1, LoopType
      <4>3. ram' \in [Vars -> Pointers]
        <5>1. CASE ram[v].own = "heap"
          <6>1. [ram[v] EXCEPT !.val = nvs[v]] \in Pointers
            BY <1>0, <3>1 DEF Pointers
          <6>2. ram' = [ram EXCEPT ![v] = [ram[v] EXCEPT !.val = nvs[v]]]
            BY <4>1, <5>1
          <6> QED  BY <6>1, <6>2 DEF TypeOK
        <5>2. CASE ram[v].own # "heap"
          BY <4>1, <5>2 DEF TypeOK
        <5> QED  BY <5>1, <5>2
      <4> QED  BY <3>3, <4>1, <4>2, <4>3, SMTT(30) DEF TypeOK
    <3> QED  BY <3>4, <3>5
  <2>2. CASE ~fits
    <3>1. /\ Goto(t, "free")
          /\ idLoss' = (idLoss \/ v = IdVar)
          /\ UNCHANGED <<flash, ram, req, radio, repl, misuse, acked, fresh>>
      BY <1>4, <2>2 DEF ReadGet
    <3>2. TaskOK
      BY <1>0, <3>1, GotoType
    <3>3. idLoss' \in BOOLEAN
      BY <3>1 DEF TypeOK
    <3> QED  BY <3>1, <3>2, <3>3 DEF TypeOK
  <2> QED  BY <2>1, <2>2
<1>5. CASE ReadFree(t)
  BY <1>0, <1>5, ReleaseType DEF ReadFree
<1>6. CASE ReadNull(t)
  <2>1. TaskOK
    BY <1>0, <1>6, LoopType DEF ReadNull
  <2>2. ram' \in [Vars -> Pointers]
    BY <1>0, <1>6, PointerFacts DEF ReadNull, TypeOK
  <2>3. UNCHANGED <<flash, req, radio, repl, misuse, history>>
    BY <1>6 DEF ReadNull
  <2> QED  BY <2>1, <2>2, <2>3 DEF TypeOK
<1> QED  BY <1>1, <1>2, <1>3, <1>4, <1>5, <1>6 DEF ReadVariables

\* Every step of app_main.
LEMMA MainType ==
    ASSUME TypeOK, MainStep, resets' = resets
    PROVE  TypeOK'
<1> DEFINE TaskOK == task' \in [Tasks -> [pc : PCs, i : Vars, sz : Nat, live : BOOLEAN]]
<1> USE DEF flash, radio, history
<1>0. /\ "main" \in Tasks /\ task["main"].i \in Vars
      /\ task["main"] \in [pc : PCs, i : Vars, sz : Nat, live : BOOLEAN]
      /\ {"open", "check", "defaults", "done"} \subseteq PCs
  BY DEF TypeOK, Tasks, PCs
<1>1. CASE MainBoot
  <2>1. TaskOK
    BY <1>0, <1>1, GotoType DEF MainBoot
  <2> QED  BY <1>1, <2>1 DEF MainBoot, TypeOK
<1>2. CASE ReadVariables("main")
  BY <1>0, <1>2, ReadVariablesType
<1>3. CASE MainCheck
  <2>1. PICK b \in BOOLEAN : b = (VariablesAreEmpty /\ nvsReady)
    BY DEF VariablesAreEmpty
  <2>2. task' = [task EXCEPT ![ "main"] =
                   [task["main"] EXCEPT !.pc = IF b THEN "defaults" ELSE "done", !.live = b]]
    BY <1>3, <2>1 DEF MainCheck
  <2>3. [task["main"] EXCEPT !.pc = IF b THEN "defaults" ELSE "done", !.live = b]
          \in [pc : PCs, i : Vars, sz : Nat, live : BOOLEAN]
    BY <1>0
  <2>4. TaskOK
    BY <1>0, <2>2, <2>3 DEF TypeOK
  <2> QED  BY <1>3, <2>4 DEF MainCheck, TypeOK
<1>4. CASE MainDefault
  <2>1. TaskOK
    BY <1>0, <1>4, LoopType DEF MainDefault
  <2>2. DefaultValue[task["main"].i] \in Stored
    BY <1>0, StringAssumption DEF Stored
  <2>3. nvs' \in [Vars -> Stored]
    BY <1>0, <1>4, <2>2 DEF MainDefault, WriteDefault, TypeOK
  <2>4. UNCHANGED <<nvsReady, ram, req, radio, repl, misuse, history>>
    BY <1>4 DEF MainDefault
  <2> QED  BY <2>1, <2>3, <2>4 DEF TypeOK
<1> QED  BY <1>1, <1>2, <1>3, <1>4 DEF MainStep

\* The events that start a callback of the host task.
LEMMA HostEventType ==
    ASSUME TypeOK, OnSync \/ HostEvent, resets' = resets
    PROVE  TypeOK'
<1> DEFINE TaskOK == task' \in [Tasks -> [pc : PCs, i : Vars, sz : Nat, live : BOOLEAN]]
<1> USE DEF flash, radio, history
<1>0. "host" \in Tasks /\ "open" \in PCs /\ Booted \in BOOLEAN
  BY DEF Tasks, PCs, Booted, At
<1>1. CASE OnSync \/ GapEvent
  <2>1. Goto("host", "open")
    BY <1>1 DEF OnSync, GapEvent, Advertise, Goto
  <2>2. TaskOK
    BY <1>0, <2>1, GotoType
  <2>3. /\ req' = [NoReq EXCEPT !.job = "adv", !.booted = Booted]
        /\ fresh' = Booted
        /\ UNCHANGED <<flash, ram, radio, repl, misuse, acked, idLoss>>
    BY <1>1 DEF OnSync, GapEvent
  <2>4. req' \in [job : {"none", "adv", "read", "write"},
                  char : {"none", "uninitialized", "initialized"},
                  load : Payloads \cup {<<>>}, booted : BOOLEAN]
    BY <1>0, <2>3 DEF NoReq
  <2> QED  BY <1>0, <2>2, <2>3, <2>4 DEF TypeOK
<1>2. ASSUME NEW job \in {"read", "write"}, NEW char \in {"uninitialized", "initialized"},
             NEW load \in Payloads \cup {<<>>}, GattAccess(job, char, load)
      PROVE  TypeOK'
  <2>1. TaskOK
    BY <1>0, <1>2, GotoType DEF GattAccess
  <2>2. req' \in [job : {"none", "adv", "read", "write"},
                  char : {"none", "uninitialized", "initialized"},
                  load : Payloads \cup {<<>>}, booted : BOOLEAN]
    BY <1>0, <1>2 DEF GattAccess
  <2>3. UNCHANGED <<flash, ram, radio, repl, misuse, history>>
    BY <1>2 DEF GattAccess
  <2> QED  BY <2>1, <2>2, <2>3 DEF TypeOK
<1>3. CASE HostEvent /\ ~GapEvent
  <2>1. PICK char \in {"uninitialized", "initialized"} :
            \/ GattAccess("read", char, <<>>)
            \/ \E load \in Payloads : GattAccess("write", char, load)
    BY <1>3 DEF HostEvent
  <2> QED  BY <1>2, <2>1
<1> QED  BY <1>1, <1>3

\* What a GATT write sets is a map from variables to strings.
LEMMA WrittenType ==
    ASSUME TypeOK
    PROVE  /\ DOMAIN req.load \subseteq Vars
           /\ \A v \in DOMAIN req.load : req.load[v] \in Strings
           /\ DOMAIN Written \subseteq Vars
           /\ \A v \in DOMAIN Written : Written[v] \in Strings
<1>1. req.load \in Payloads \/ req.load = <<>>
  BY DEF TypeOK
<1>2. CASE req.load \in Payloads
  <2>1. PICK S \in SUBSET Vars : req.load \in [S -> Strings]
    BY <1>2, EnvironmentAssumption
  <2> QED  BY <2>1, VarsFacts, StringAssumption DEF Written
<1>3. CASE req.load = <<>>
  <2>1. DOMAIN req.load = {}
    BY <1>3
  <2> QED  BY <2>1, VarsFacts, StringAssumption DEF Written
<1> QED  BY <1>1, <1>2, <1>3

\* strdup copies the string of a key that the payload has.
DupKey == At("host", "dup") => task["host"].i \in DOMAIN req.load

\* fillVariblseFromJsonString.
LEMMA FillType ==
    ASSUME TypeOK, DupKey, FillFree \/ FillDup, resets' = resets
    PROVE  TypeOK'
<1> DEFINE TaskOK == task' \in [Tasks -> [pc : PCs, i : Vars, sz : Nat, live : BOOLEAN]]
           v == task["host"].i
<1>0. "host" \in Tasks /\ {"fill", "dup", "mark"} \subseteq PCs /\ v \in Vars
  BY DEF TypeOK, Tasks, PCs
<1>1. CASE FillFree
  <2>1. CASE v \in DOMAIN req.load
    BY <1>0, <1>1, <2>1, ReleaseType DEF FillFree
  <2>2. CASE v \notin DOMAIN req.load
    <3>1. /\ Loop("host", "fill", "mark")
          /\ UNCHANGED <<flash, ram, req, radio, repl, misuse, history>>
      BY <1>1, <2>2 DEF FillFree
    <3>2. TaskOK
      BY <1>0, <3>1, LoopType
    <3> QED  BY <3>1, <3>2 DEF TypeOK, flash, radio, history
  <2> QED  BY <2>1, <2>2
<1>2. CASE FillDup
  <2>1. PICK p \in StrDup(ram[v], req.load[v]) :
            /\ ram' = [ram EXCEPT ![v] = p]
            /\ idLoss' = (idLoss \/ (v = IdVar /\ p = NullPtr))
    BY <1>2 DEF FillDup
  <2>2. TaskOK
    BY <1>0, <1>2, LoopType DEF FillDup
  <2>3. UNCHANGED <<flash, req, radio, repl, misuse, acked, fresh>>
    BY <1>2 DEF FillDup
  <2>4. p \in Pointers
    <3>1. v \in DOMAIN req.load
      BY <1>2 DEF DupKey, FillDup
    <3> QED  BY <2>1, <3>1, WrittenType, StringAssumption, PointerFacts DEF StrDup
  <2>5. ram' \in [Vars -> Pointers] /\ idLoss' \in BOOLEAN
    BY <1>0, <2>1, <2>4 DEF TypeOK
  <2> QED  BY <2>2, <2>3, <2>5 DEF TypeOK, flash, radio, history
<1> QED  BY <1>1, <1>2

LEMMA PrintKinds == TypeOK => PrintMisuse \in SUBSET Misuses
BY MisuseKinds DEF PrintMisuse, TypeOK

\* The end of a callback: the answer to a read, or the log of a write.
LEMMA AnswerType ==
    ASSUME TypeOK, Respond \/ LogTable, resets' = resets
    PROVE  TypeOK'
<1> DEFINE TaskOK == task' \in [Tasks -> [pc : PCs, i : Vars, sz : Nat, live : BOOLEAN]]
<1> USE DEF flash, radio, history
<1>0. "host" \in Tasks /\ {"idle", "open"} \subseteq PCs /\ Booted \in BOOLEAN
  BY DEF Tasks, PCs, Booted, At
<1>1. misuse' \subseteq Misuses
  BY PrintKinds, MisuseType DEF Respond, LogTable, Outcome
<1>2. CASE Reboot
  BY <1>1, <1>2, RebootType DEF TypeOK
<1>3. CASE Respond /\ ~Reboot
  <2>1. /\ Goto("host", "idle")
        /\ req' = NoReq
        /\ UNCHANGED <<flash, ram, radio, repl, history>>
    BY <1>3 DEF Respond, Outcome
  <2>2. TaskOK
    BY <1>0, <2>1, GotoType
  <2> QED  BY <1>1, <2>1, <2>2 DEF TypeOK, NoReq
<1>4. CASE LogTable /\ ~Reboot
  <2>1. /\ Goto("host", "open")
        /\ req' = [req EXCEPT !.job = "adv"]
        /\ fresh' = Booted
        /\ UNCHANGED <<flash, ram, radio, repl, acked, idLoss>>
    BY <1>4 DEF LogTable, Outcome, Advertise, Goto
  <2>2. TaskOK
    BY <1>0, <2>1, GotoType
  <2>3. req' \in [job : {"none", "adv", "read", "write"},
                  char : {"none", "uninitialized", "initialized"},
                  load : Payloads \cup {<<>>}, booted : BOOLEAN]
    BY <2>1 DEF TypeOK
  <2> QED  BY <1>0, <1>1, <2>1, <2>2, <2>3 DEF TypeOK
<1> QED  BY <1>2, <1>3, <1>4

\* writeVariablesToNvs, and the flag that uninitializedCallback sets before.
LEMMA StoreType ==
    ASSUME TypeOK, Mark \/ Store, resets' = resets
    PROVE  TypeOK'
<1> DEFINE TaskOK == task' \in [Tasks -> [pc : PCs, i : Vars, sz : Nat, live : BOOLEAN]]
           v == task["host"].i
<1> USE DEF flash, radio, history
<1>0. /\ "host" \in Tasks /\ {"store", "print"} \subseteq PCs /\ v \in Vars
      /\ task["host"] \in [pc : PCs, i : Vars, sz : Nat, live : BOOLEAN]
      /\ ram[v] \in Pointers
  BY DEF TypeOK, Tasks, PCs
<1>1. CASE Mark
  <2>1. task' = [task EXCEPT !["host"] = [task["host"] EXCEPT !.pc = "store", !.live = nvsReady]]
    BY <1>1 DEF Mark
  <2>2. [task["host"] EXCEPT !.pc = "store", !.live = nvsReady]
          \in [pc : PCs, i : Vars, sz : Nat, live : BOOLEAN]
    BY <1>0 DEF TypeOK
  <2>3. TaskOK
    BY <1>0, <2>1, <2>2 DEF TypeOK
  <2>4. ram' \in [Vars -> Pointers]
    BY <1>1, PointerFacts, VarsFacts, StringAssumption DEF Mark, TypeOK
  <2>5. DOMAIN acked' \subseteq Vars /\ \A w \in DOMAIN acked' : acked'[w] \in Strings
    BY <1>1, WrittenType DEF Mark
  <2>6. UNCHANGED <<flash, req, radio, repl, misuse, fresh, idLoss>>
    BY <1>1 DEF Mark
  <2> QED  BY <2>3, <2>4, <2>5, <2>6 DEF TypeOK
<1>2. CASE Store
  <2>1. misuse' \subseteq Misuses
    <3>1. (IF WrittenBack(v) THEN ReadMisuse(ram[v]) ELSE {}) \in SUBSET Misuses
      BY <1>0, MisuseKinds
    <3> QED  BY <1>2, <3>1, MisuseType DEF Store, Outcome
  <2>2. CASE Reboot
    BY <2>1, <2>2, RebootType DEF TypeOK
  <2>3. CASE ~Reboot
    <3>1. /\ nvs' = nvs \/ nvs' = [nvs EXCEPT ![v] = Seen(ram[v])]
          /\ Loop("host", "store", "print")
          /\ UNCHANGED <<nvsReady, ram, req, radio, repl, history>>
      BY <1>2, <2>3 DEF Store, Outcome
    <3>2. TaskOK
      BY <1>0, <3>1, LoopType
    <3>3. nvs' \in [Vars -> Stored]
      BY <1>0, <3>1, PointerFacts DEF TypeOK, Stored
    <3> QED  BY <2>1, <3>1, <3>2, <3>3 DEF TypeOK
  <2> QED  BY <2>2, <2>3
<1> QED  BY <1>1, <1>2

\* The manufacturer data fits its bytes.
LEMMA DataType ==
    \A flag, id \in Strings \cup {Garbage} :
        ManufacturerData(flag, id)
            \in [flag : {"none", "junk", "initialized", "uninitialized"}, id : 0 .. 255]
<1> SUFFICES ASSUME NEW flag \in Strings \cup {Garbage}, NEW id \in Strings \cup {Garbage}
             PROVE  ManufacturerData(flag, id)
                      \in [flag : {"none", "junk", "initialized", "uninitialized"}, id : 0 .. 255]
  OBVIOUS
<1>1. id \in Strings => AtoI[id] % 256 \in 0 .. 255
  <2>1. \A n \in Nat : n % 256 \in 0 .. 255
    OBVIOUS
  <2> QED  BY <2>1, StringAssumption, SMTT(30)
<1> QED  BY <1>1 DEF ManufacturerData, Junk

\* ble_app_advertise.
LEMMA AdvertiseType ==
    ASSUME TypeOK, AdvName \/ AdvData, resets' = resets
    PROVE  TypeOK'
<1> DEFINE TaskOK == task' \in [Tasks -> [pc : PCs, i : Vars, sz : Nat, live : BOOLEAN]]
           Air == [flag : {"none", "junk", "initialized", "uninitialized"}, id : 0 .. 255]
<1> USE DEF flash, radio, history
<1>0. /\ "host" \in Tasks /\ {"data", "idle"} \subseteq PCs
      /\ \A v \in Vars : ram[v] \in Pointers
      /\ adv \in Air /\ gapName \in GapNames \cup {Garbage}
  BY DEF TypeOK, Tasks, PCs
<1>1. CASE AdvName
  <2>1. misuse' \subseteq Misuses
    <3>1. ReadMisuse(ram[NameVar]) \in SUBSET Misuses
      BY <1>0, VarsFacts, MisuseKinds
    <3> QED  BY <1>1, <3>1, MisuseType DEF AdvName, Outcome
  <2>2. CASE Reboot
    BY <2>1, <2>2, RebootType DEF TypeOK
  <2>3. CASE ~Reboot
    <3> DEFINE s == Seen(ram[NameVar])
    <3>1. /\ gapName' \in
               IF ram[NameVar].own = "null" THEN {gapName}
               ELSE IF s = Garbage THEN {gapName, Garbage}
               ELSE IF s \in GapNames THEN {s} ELSE {gapName}
          /\ ram' = [ram EXCEPT ![InitVar] = FlagOrDefault(ram[InitVar])]
          /\ Goto("host", "data")
          /\ UNCHANGED <<flash, req, adv, repl, history>>
      BY <1>1, <2>3 DEF AdvName, Outcome
    <3>2. TaskOK
      BY <1>0, <3>1, GotoType
    <3>3. FlagOrDefault(ram[InitVar]) \in Pointers
      BY <1>0, VarsFacts, PointerFacts, StringAssumption DEF FlagOrDefault
    <3>4. ram' \in [Vars -> Pointers]
      BY <3>1, <3>3 DEF TypeOK
    <3>5. gapName' \in GapNames \cup {Garbage}
      BY <1>0, <3>1
    <3> QED  BY <2>1, <3>1, <3>2, <3>4, <3>5 DEF TypeOK
  <2> QED  BY <2>2, <2>3
<1>2. CASE AdvData
  <2> DEFINE flag == ram[InitVar]
             id == ram[IdVar]
             data == ManufacturerData(Seen(flag), Seen(id))
             isTrue == Seen(flag) = TrueStr
             kinds == {k \in {"nullDeref"} : flag.own = "null" \/ (isTrue /\ id.own = "null")}
                      \cup ReadMisuse(flag) \cup (IF isTrue THEN ReadMisuse(id) ELSE {})
  <2>1. misuse' \subseteq Misuses
    <3>1. ReadMisuse(flag) \in SUBSET Misuses /\ ReadMisuse(id) \in SUBSET Misuses
      BY <1>0, VarsFacts, MisuseKinds
    <3>2. kinds \in SUBSET Misuses
      BY <3>1 DEF Misuses, Fatal
    <3> QED  BY <1>2, <3>2, MisuseType DEF AdvData, Outcome
  <2>2. CASE Reboot
    BY <2>1, <2>2, RebootType DEF TypeOK
  <2>3. CASE ~Reboot
    <3>1. /\ adv' \in IF gapName \in AdvNames THEN {data}
                      ELSE IF gapName = Garbage THEN {data, adv} ELSE {adv}
          /\ Goto("host", "idle")
          /\ req' = NoReq
          /\ UNCHANGED <<flash, ram, gapName, repl, history>>
      BY <1>2, <2>3 DEF AdvData, Outcome
    <3>2. TaskOK
      BY <1>0, <3>1, GotoType
    <3>3. data \in Air
      BY <1>0, VarsFacts, PointerFacts, DataType, ZenonT(90)
    <3>4. adv' \in Air
      BY <1>0, <3>1, <3>3
    <3> QED  BY <2>1, <3>1, <3>2, <3>4 DEF TypeOK, NoReq
  <2> QED  BY <2>2, <2>3
<1> QED  BY <1>1, <1>2

\* The console commands.
LEMMA ConsoleType ==
    ASSUME TypeOK, Console, resets' = resets
    PROVE  TypeOK'
<1> USE DEF flash, radio, history
<1>1. ASSUME NEW v \in Vars, NEW s \in SetValues, SetNvs(v, s)
      PROVE  TypeOK'
  <2>1. nvs' \in [Vars -> Stored]
    BY <1>1, EnvironmentAssumption DEF SetNvs, TypeOK, Stored
  <2>2. DOMAIN acked' \subseteq Vars /\ \A w \in DOMAIN acked' : acked'[w] \in Strings
    BY <1>1 DEF SetNvs, TypeOK
  <2>3. /\ fresh' = FALSE /\ nvsReady' = nvsReady /\ ram' = ram /\ task' = task
        /\ req' = req /\ gapName' = gapName /\ adv' = adv /\ repl' = repl
        /\ misuse' = misuse /\ idLoss' = idLoss
    BY <1>1 DEF SetNvs
  <2>4. /\ nvsReady' \in BOOLEAN /\ ram' \in [Vars -> Pointers]
        /\ task' \in [Tasks -> [pc : PCs, i : Vars, sz : Nat, live : BOOLEAN]]
        /\ req' \in [job : {"none", "adv", "read", "write"},
                     char : {"none", "uninitialized", "initialized"},
                     load : Payloads \cup {<<>>}, booted : BOOLEAN]
    BY <2>3 DEF TypeOK
  <2>5. /\ gapName' \in GapNames \cup {Garbage}
        /\ adv' \in [flag : {"none", "junk", "initialized", "uninitialized"}, id : 0 .. 255]
        /\ repl' \in {"idle", "erasing"} /\ resets' \in 0 .. MaxResets
        /\ misuse' \subseteq Misuses /\ fresh' \in BOOLEAN /\ idLoss' \in BOOLEAN
    BY <2>3 DEF TypeOK
  <2> QED  BY <2>1, <2>2, <2>4, <2>5 DEF TypeOK
<1>2. ASSUME NEW v \in Vars, DelNvs(v)
      PROVE  TypeOK'
  <2>1. nvs' \in [Vars -> Stored]
    BY <1>2 DEF DelNvs, TypeOK, Stored
  <2>2. DOMAIN acked' \subseteq Vars /\ \A w \in DOMAIN acked' : acked'[w] \in Strings
    BY <1>2 DEF DelNvs, TypeOK
  <2>3. /\ fresh' = FALSE /\ nvsReady' = nvsReady /\ ram' = ram /\ task' = task
        /\ req' = req /\ gapName' = gapName /\ adv' = adv /\ repl' = repl
        /\ misuse' = misuse /\ idLoss' = idLoss
    BY <1>2 DEF DelNvs
  <2>4. /\ nvsReady' \in BOOLEAN /\ ram' \in [Vars -> Pointers]
        /\ task' \in [Tasks -> [pc : PCs, i : Vars, sz : Nat, live : BOOLEAN]]
        /\ req' \in [job : {"none", "adv", "read", "write"},
                     char : {"none", "uninitialized", "initialized"},
                     load : Payloads \cup {<<>>}, booted : BOOLEAN]
    BY <2>3 DEF TypeOK
  <2>5. /\ gapName' \in GapNames \cup {Garbage}
        /\ adv' \in [flag : {"none", "junk", "initialized", "uninitialized"}, id : 0 .. 255]
        /\ repl' \in {"idle", "erasing"} /\ resets' \in 0 .. MaxResets
        /\ misuse' \subseteq Misuses /\ fresh' \in BOOLEAN /\ idLoss' \in BOOLEAN
    BY <2>3 DEF TypeOK
  <2> QED  BY <2>1, <2>2, <2>4, <2>5 DEF TypeOK
<1>3. CASE EraseNvs
  <2>1. nvs' \in [Vars -> Stored]
    BY <1>3 DEF EraseNvs, TypeOK
  <2>2. task' \in [Tasks -> [pc : PCs, i : Vars, sz : Nat, live : BOOLEAN]]
    <3>1. \A r \in [pc : PCs, i : Vars, sz : Nat, live : BOOLEAN] :
            [r EXCEPT !.live = FALSE] \in [pc : PCs, i : Vars, sz : Nat, live : BOOLEAN]
      OBVIOUS
    <3>2. \A t \in Tasks : task[t] \in [pc : PCs, i : Vars, sz : Nat, live : BOOLEAN]
      BY DEF TypeOK
    <3> QED  BY <1>3, <3>1, <3>2 DEF EraseNvs
  <2>3. nvsReady' \in BOOLEAN /\ fresh' \in BOOLEAN
    BY <1>3 DEF EraseNvs
  <2>4. DOMAIN acked' \subseteq Vars /\ \A w \in DOMAIN acked' : acked'[w] \in Strings
    BY <1>3 DEF EraseNvs
  <2>5. repl' \in {"idle", "erasing"} /\ UNCHANGED <<ram, req, radio, misuse, idLoss>>
    BY <1>3 DEF EraseNvs
  <2> QED  BY <2>1, <2>2, <2>3, <2>4, <2>5 DEF TypeOK
<1>4. CASE EraseInit
  <2>1. nvsReady' \in BOOLEAN /\ nvs' \in [Vars -> Stored]
    <3>1. [v \in Vars |-> Absent] \in [Vars -> Stored]
      BY DEF Stored
    <3> QED  BY <1>4, <3>1, SurvivorsType DEF EraseInit, TypeOK
  <2>2. repl' \in {"idle", "erasing"}
        /\ UNCHANGED <<ram, task, req, radio, misuse, history>>
    BY <1>4 DEF EraseInit
  <2> QED  BY <2>1, <2>2 DEF TypeOK
<1>5. CASE PrintMRD
  BY <1>5, RebootType DEF PrintMRD, TypeOK
<1> QED  BY <1>1, <1>2, <1>3, <1>4, <1>5 DEF Console

LEMMA StepType == TypeOK /\ DupKey /\ Next => TypeOK'
<1> SUFFICES ASSUME TypeOK, DupKey, Next PROVE TypeOK'
  OBVIOUS
<1>1. CASE Step /\ UNCHANGED resets
  <2>1. CASE MainStep
    BY <1>1, <2>1, MainType
  <2>2. CASE OnSync \/ HostEvent
    BY <1>1, <2>2, HostEventType
  <2>3. CASE Callback
    <3>1. CASE ReadVariables("host")
      BY <1>1, <3>1, ReadVariablesType DEF Tasks
    <3>2. CASE Respond \/ LogTable
      BY <1>1, <3>2, AnswerType
    <3>3. CASE FillFree \/ FillDup
      BY <1>1, <3>3, FillType
    <3>4. CASE Mark \/ Store
      BY <1>1, <3>4, StoreType
    <3>5. CASE AdvName \/ AdvData
      BY <1>1, <3>5, AdvertiseType
    <3> QED  BY <2>3, <3>1, <3>2, <3>3, <3>4, <3>5 DEF Callback
  <2>4. CASE Console
    BY <1>1, <2>4, ConsoleType
  <2> QED  BY <1>1, <2>1, <2>2, <2>3, <2>4 DEF Step
<1>2. CASE PowerCycle
  BY <1>2, RebootType, EnvironmentAssumption, SMTT(90) DEF PowerCycle, TypeOK
<1> QED  BY <1>1, <1>2 DEF Next

\* Only FillFree leads to strdup, and nothing changes the payload or the
\* variable in between.
LEMMA ReadVariablesOfOther ==
    ASSUME TypeOK, ReadVariables("main")
    PROVE  Reboot \/ (task'["host"] = task["host"] /\ req' = req)
<1>1. \A pc, again, exit : Goto("main", pc) \/ Loop("main", again, exit)
                             => task'["host"] = task["host"]
  BY DEF Goto, Loop, TypeOK, Tasks
<1>2. CASE ReadOpen("main")
  BY <1>2 DEF ReadOpen, TypeOK, Tasks
<1>3. CASE ReadSize("main")
  <2>1. req' = req
    BY <1>3 DEF ReadSize
  <2>2. CASE Loop("main", "size", Return("main"))
    BY <1>1, <2>1, <2>2
  <2>3. CASE task' = [task EXCEPT !["main"].pc = "alloc", !["main"].sz = Size[nvs[task["main"].i]]]
    BY <2>1, <2>3 DEF TypeOK, Tasks
  <2> QED  BY <1>3, <2>2, <2>3 DEF ReadSize
<1>4. CASE ReadAlloc("main")
  BY <1>1, <1>4 DEF ReadAlloc
<1>5. CASE ReadGet("main")
  BY <1>1, <1>5 DEF ReadGet, Outcome
<1>6. CASE ReadFree("main") \/ ReadNull("main")
  BY <1>1, <1>6 DEF ReadFree, ReadNull, Outcome
<1> QED  BY <1>2, <1>3, <1>4, <1>5, <1>6 DEF ReadVariables

LEMMA DupKeyStep == TypeOK /\ DupKey /\ Next => DupKey'
<1> SUFFICES ASSUME TypeOK, DupKey, Next, At("host", "dup")'
             PROVE  (task["host"].i \in DOMAIN req.load)'
  BY DEF DupKey
<1>1. ~Reboot
  <2>1. BootTask["host"].pc = "presync"
    BY DEF BootTask, Tasks
  <2> QED  BY <2>1 DEF Reboot, At
<1>2. /\ \A pc : Goto("host", pc) => pc = "dup"
      /\ \A again, exit : Loop("host", again, exit) => again = "dup" \/ exit = "dup"
  BY DEF Goto, Loop, At, TypeOK, Tasks
<1>3. CASE task'["host"].i = task["host"].i /\ task'["host"].pc = task["host"].pc /\ req' = req
  BY <1>3 DEF DupKey, At
<1>4. CASE MainStep
  <2>1. \A pc, again, exit : Goto("main", pc) \/ Loop("main", again, exit)
                               => task'["host"] = task["host"]
    BY DEF Goto, Loop, TypeOK, Tasks
  <2>2. task'["host"] = task["host"] /\ req' = req
    BY <1>1, <1>4, <2>1, ReadVariablesOfOther
    DEF MainStep, MainBoot, MainCheck, MainDefault, TypeOK, Tasks
  <2> QED  BY <1>3, <2>2
<1>5. CASE FillFree
  <2>1. task["host"].i \in DOMAIN req.load
    BY <1>2, <1>5 DEF FillFree
  <2>2. Goto("host", "dup") /\ req' = req
    BY <1>1, <1>5, <2>1 DEF FillFree, Outcome
  <2> QED  BY <2>1, <2>2 DEF Goto, TypeOK, Tasks
<1>6. CASE ReadVariables("host")
  <2>1. ReadOpen("host") \/ ReadSize("host") \/ ReadAlloc("host")
        \/ ReadGet("host") \/ ReadFree("host") \/ ReadNull("host")
    BY <1>6 DEF ReadVariables
  <2>2. Return("host") # "dup"
    BY DEF Return
  <2>3. ~ReadOpen("host")
    BY <2>2 DEF ReadOpen, At, TypeOK, Tasks
  <2>4. ~Loop("host", "size", Return("host"))
    BY <1>2, <2>2
  <2>5. ~Goto("host", "get") /\ ~Goto("host", "free") /\ ~Goto("host", "null")
    BY <1>2
  <2>6. ~ReadSize("host")
    BY <2>4 DEF ReadSize, At, TypeOK, Tasks
  <2>7. ~ReadAlloc("host") /\ ~ReadNull("host")
    BY <2>4, <2>5 DEF ReadAlloc, ReadNull
  <2>8. ~ReadGet("host") /\ ~ReadFree("host")
    BY <1>1, <2>4, <2>5 DEF ReadGet, ReadFree, Outcome
  <2> QED  BY <2>1, <2>3, <2>6, <2>7, <2>8
<1>7. ~FillDup /\ ~Respond /\ ~AdvName /\ ~AdvData /\ ~Store
  <2>1. ~Loop("host", "fill", "mark") /\ ~Loop("host", "store", "print")
        /\ ~Goto("host", "idle") /\ ~Goto("host", "data")
    BY <1>2
  <2> QED  BY <1>1, <2>1 DEF FillDup, Respond, AdvName, AdvData, Store, Outcome
<1>8. CASE Mark \/ LogTable \/ OnSync \/ HostEvent
  <2>1. task'["host"].pc \in {"store", "open"}
    BY <1>1, <1>8
    DEF Mark, LogTable, OnSync, HostEvent, GapEvent, GattAccess, Advertise, Goto, Outcome,
        TypeOK, Tasks
  <2> QED  BY <2>1 DEF At
<1>9. CASE Console
  <2>1. req' = req
    BY <1>1, <1>9 DEF Console, SetNvs, DelNvs, EraseNvs, EraseInit, PrintMRD
  <2>2. task' = task \/ task' = [t \in Tasks |-> [task[t] EXCEPT !.live = FALSE]]
    BY <1>1, <1>9 DEF Console, SetNvs, DelNvs, EraseNvs, EraseInit, PrintMRD
  <2>3. task["host"] \in [pc : PCs, i : Vars, sz : Nat, live : BOOLEAN]
    BY DEF TypeOK, Tasks
  <2>4. task'["host"].i = task["host"].i /\ task'["host"].pc = task["host"].pc
    BY <2>2, <2>3 DEF Tasks
  <2> QED  BY <1>3, <2>1, <2>4
<1> QED  BY <1>1, <1>4, <1>5, <1>6, <1>7, <1>8, <1>9 DEF Next, Step, Callback, PowerCycle

-----------------------------------------------------------------------------
IInv == TypeOK /\ DupKey

LEMMA InitIInv == Init => IInv
<1>1. Init => DupKey
  BY DEF Init, DupKey, At, BootTask, Tasks
<1> QED  BY <1>1, InitType DEF IInv

LEMMA NextIInv == IInv /\ [Next]_vars => IInv'
<1>1. IInv /\ Next => IInv'
  BY StepType, DupKeyStep DEF IInv
<1>2. IInv /\ UNCHANGED vars => IInv'
  BY DEF IInv, TypeOK, DupKey, At, vars, flash, radio, history
<1> QED  BY <1>1, <1>2

\* In every state, for every table, payload, fault and number of resets, the
\* variables have their types, and strdup is only called for a key that the
\* payload has (main/myRemoteDevice.c:46-60).
THEOREM Invariance == Spec => []IInv
<1> QED  BY InitIInv, NextIInv, PTL DEF Spec

\* The table of variables, NVS, the tasks and the advertised bytes always have
\* their types (main/myRemoteDevice.c:10-36, main/ble.c:155-189).
THEOREM TypeCorrect == Spec => []TypeOK
<1>1. IInv => TypeOK
  BY DEF IInv
<1> QED  BY <1>1, Invariance, PTL

-----------------------------------------------------------------------------
(* Memory safety.                                                            *)

\* No payload names the flag, which may be a string literal when its key is
\* gone from NVS.
NoFlagPayload == \A load \in Payloads : InitVar \notin DOMAIN load

\* Only the flag is ever a string literal.
Literal == \A v \in Vars : ram[v].own = "rodata" => v = InitVar

\* Who has released a string is about to replace the pointer to it.
Replacing(t, v) == task[t].i = v /\ task[t].pc \in {"null", "dup"}
Dangling == \A v \in Vars : ram[v].own = "freed" => \E t \in Tasks : Replacing(t, v)

\* A callback that began after the boot has the table for itself, and fills
\* or releases the buffer that it has allocated.
Exclusive ==
    req.booted =>
        /\ Booted
        /\ At("host", "get") \/ At("host", "free") => ram[task["host"].i].own = "heap"
        /\ At("host", "get") => ram[task["host"].i].cap = task["host"].sz

Safe == NoFlagPayload => MemorySafeOnceBooted

\* Who owns what the table points to. All but Safe holds of any payload: to
\* free a literal stops the chip.
Owned == Safe /\ Literal /\ Dangling /\ Exclusive

LEMMA LoopMoves ==
    ASSUME TypeOK, NEW t \in Tasks, NEW again, NEW exit, Loop(t, again, exit)
    PROVE  task'[t].pc \in {again, exit} /\ \A u \in Tasks \ {t} : task'[u] = task[u]
BY DEF Loop, TypeOK

LEMMA GotoMoves ==
    ASSUME TypeOK, NEW t \in Tasks, NEW p, Goto(t, p)
    PROVE  /\ task'[t].pc = p /\ task'[t].i = task[t].i /\ task'[t].sz = task[t].sz
           /\ \A u \in Tasks \ {t} : task'[u] = task[u]
BY DEF Goto, TypeOK

\* After a reset nobody owns anything.
LEMMA RebootOwned ==
    ASSUME Reboot, Safe'
    PROVE  Owned'
BY DEF Reboot, Owned, Safe, MemorySafeOnceBooted, Literal, Dangling, Exclusive, NullPtr, NoReq

\* A step that neither releases nor allocates.
LEMMA PlainOwned ==
    ASSUME TypeOK, Owned, NEW t \in Tasks, task[t].pc \notin {"null", "dup"},
           \A u \in Tasks \ {t} : task'[u] = task[u],
           t = "main" => ~req.booted /\ req' = req,
           t = "host" => (req'.booted => Booted) /\ task'[t].pc \notin {"get", "free"},
           Safe',
           \A v \in Vars : ram'[v].own = "rodata" => v = InitVar \/ ram[v].own = "rodata",
           \A v \in Vars : ram'[v].own = "freed" => ram[v].own = "freed"
    PROVE  Owned'
<1>1. Literal'
  BY DEF Owned, Literal
<1>2. Dangling'
  <2> SUFFICES ASSUME NEW v \in Vars, ram'[v].own = "freed"
               PROVE  \E u \in Tasks : Replacing(u, v)'
    BY DEF Dangling
  <2>1. PICK u \in Tasks : Replacing(u, v)
    BY DEF Owned, Dangling
  <2> QED  BY <2>1 DEF Replacing
<1>3. Exclusive'
  BY DEF Exclusive, Booted, At, Tasks
<1> QED  BY <1>1, <1>2, <1>3 DEF Owned, Safe, MemorySafeOnceBooted

\* readVariablesFromNvs. Only the host task runs it for a callback that began
\* after the boot.
LEMMA ReadVariablesOwned ==
    ASSUME TypeOK, Owned, NEW t \in Tasks, ReadVariables(t), t = "main" => ~Booted
    PROVE  Owned'
<1> DEFINE v == task[t].i
<1>0. /\ v \in Vars /\ ram[v] \in Pointers /\ "host" \in Tasks
      /\ Return(t) \notin {"get", "free", "null", "dup"}
      /\ t = "main" => ~req.booted
      /\ req.booted => t = "host"
      /\ Exclusive /\ Safe /\ Literal /\ Dangling
  BY DEF TypeOK, Owned, Exclusive, Return, Tasks
<1>1. CASE ReadOpen(t)
  <2>1. /\ task'[t].pc \in {"size", Return(t)} /\ \A u \in Tasks \ {t} : task'[u] = task[u]
        /\ task[t].pc = "open"
    BY <1>1 DEF ReadOpen, At, TypeOK
  <2> QED  BY <1>0, <1>1, <2>1, PlainOwned
           DEF ReadOpen, Safe, MemorySafeOnceBooted, Exclusive, Booted, At, Tasks
<1>2. CASE ReadSize(t)
  <2>1. /\ task'[t].pc \in {"alloc", "size", Return(t)}
        /\ \A u \in Tasks \ {t} : task'[u] = task[u]
        /\ task[t].pc = "size"
    BY <1>2, LoopMoves DEF ReadSize, At, TypeOK
  <2> QED  BY <1>0, <1>2, <2>1, PlainOwned
           DEF ReadSize, Safe, MemorySafeOnceBooted, Exclusive, Booted, At, Tasks
<1>3. CASE ReadAlloc(t)
  <2>0. task[t].pc = "alloc" /\ UNCHANGED <<req, misuse>>
    BY <1>3 DEF ReadAlloc, At
  <2>1. CASE ram' = [ram EXCEPT ![v] = NewBuffer(task[t].sz)] /\ Goto(t, "get")
    <3>1. /\ task'[t].pc = "get" /\ task'[t].i = v /\ task'[t].sz = task[t].sz
          /\ \A u \in Tasks \ {t} : task'[u] = task[u]
      BY <2>1, GotoMoves
    <3>2. ram'[v].own = "heap" /\ ram'[v].cap = task[t].sz /\ \A w \in Vars \ {v} : ram'[w] = ram[w]
      BY <1>0, <2>1 DEF TypeOK, NewBuffer, Heap
    <3>3. Literal'
      BY <1>0, <3>2 DEF Literal
    <3>4. Dangling'
      BY <1>0, <2>0, <3>1, <3>2 DEF Dangling, Replacing
    <3>5. Exclusive'
      BY <1>0, <2>0, <3>1, <3>2 DEF Exclusive, Booted, At, Tasks
    <3> QED  BY <1>0, <2>0, <3>3, <3>4, <3>5 DEF Owned, Safe, MemorySafeOnceBooted
  <2>2. CASE ram' = [ram EXCEPT ![v] = NullPtr] /\ Loop(t, "size", Return(t))
    <3>1. /\ task'[t].pc \in {"size", Return(t)} /\ \A u \in Tasks \ {t} : task'[u] = task[u]
      BY <2>2, LoopMoves
    <3>2. ram'[v].own = "null" /\ \A w \in Vars \ {v} : ram'[w] = ram[w]
      BY <1>0, <2>2 DEF TypeOK, NullPtr
    <3> QED  BY <1>0, <2>0, <3>1, <3>2, PlainOwned
             DEF Safe, MemorySafeOnceBooted, Exclusive, Booted, At, Tasks
  <2> QED  BY <1>3, <2>1, <2>2 DEF ReadAlloc
<1>4. CASE ReadGet(t)
  <2>0. task[t].pc = "get"
    BY <1>4 DEF ReadGet, At
  <2> DEFINE fits == Usable(t) /\ nvs[v] # Absent /\ Size[nvs[v]] <= task[t].sz
  <2>1. CASE fits
    <3>1. nvs[v] \in Strings \cup {Garbage} /\ Size[nvs[v]] \in Nat /\ task[t].sz \in Nat
      BY <1>0, <2>1, StringAssumption, SMTT(30) DEF TypeOK, Stored
    <3>2. req.booted => FillMisuse(ram[v], Size[nvs[v]]) = {}
      BY <1>0, <2>0, <2>1, <3>1 DEF Exclusive, At, FillMisuse
    <3>3. Safe'
      BY <1>0, <1>4, <2>1, <3>2 DEF ReadGet, Outcome, Safe, MemorySafeOnceBooted
    <3>4. CASE ~Reboot
      <4>1. /\ ram' = IF ram[v].own = "heap" THEN [ram EXCEPT ![v].val = nvs[v]] ELSE ram
            /\ Loop(t, "size", Return(t)) /\ req' = req
        BY <1>4, <2>1, <3>4 DEF ReadGet, Outcome
      <4>2. \A w \in Vars : ram'[w].own = ram[w].own
        BY <1>0, <4>1 DEF TypeOK, Pointers
      <4>3. task'[t].pc \in {"size", Return(t)} /\ \A u \in Tasks \ {t} : task'[u] = task[u]
        BY <4>1, LoopMoves
      <4> QED  BY <1>0, <2>0, <3>3, <4>1, <4>2, <4>3, PlainOwned, SMTT(30)
               DEF Exclusive, Booted, At, Tasks
    <3> QED  BY <3>3, <3>4, RebootOwned
  <2>2. CASE ~fits
    <3>1. Goto(t, "free") /\ UNCHANGED <<ram, req, misuse>>
      BY <1>4, <2>2 DEF ReadGet
    <3>2. /\ task'[t].pc = "free" /\ task'[t].i = v
          /\ \A u \in Tasks \ {t} : task'[u] = task[u]
      BY <3>1, GotoMoves
    <3>3. Dangling'
      BY <1>0, <2>0, <3>1, <3>2 DEF Dangling, Replacing
    <3>4. Exclusive'
      BY <1>0, <2>0, <3>1, <3>2 DEF Exclusive, Booted, At, Tasks
    <3> QED  BY <1>0, <3>1, <3>3, <3>4 DEF Owned, Safe, MemorySafeOnceBooted, Literal
  <2> QED  BY <2>1, <2>2
<1>5. CASE ReadFree(t)
  <2>0. task[t].pc = "free"
    BY <1>5 DEF ReadFree, At
  <2>1. req.booted => FreeMisuse(ram[v]) = {}
    BY <1>0, <2>0 DEF Exclusive, At, FreeMisuse
  <2>2. Safe'
    BY <1>0, <1>5, <2>1 DEF ReadFree, Outcome, Safe, MemorySafeOnceBooted
  <2>3. CASE ~Reboot
    <3>1. /\ ram' = [ram EXCEPT ![v] = Released(ram[v])] /\ Goto(t, "null") /\ req' = req
      BY <1>5, <2>3 DEF ReadFree, Outcome
    <3>2. /\ task'[t].pc = "null" /\ task'[t].i = v
          /\ \A u \in Tasks \ {t} : task'[u] = task[u]
      BY <3>1, GotoMoves
    <3>3. ram'[v].own \in {"null", "freed"} /\ \A w \in Vars \ {v} : ram'[w] = ram[w]
      BY <1>0, <3>1 DEF TypeOK, Released, Pointers
    <3>4. Literal'
      BY <1>0, <3>3 DEF Literal
    <3>5. Dangling'
      BY <1>0, <2>0, <3>2, <3>3 DEF Dangling, Replacing
    <3>6. Exclusive'
      BY <1>0, <2>0, <3>1, <3>2 DEF Exclusive, Booted, At, Tasks
    <3> QED  BY <2>2, <3>4, <3>5, <3>6 DEF Owned, Safe, MemorySafeOnceBooted
  <2> QED  BY <2>2, <2>3, RebootOwned
<1>6. CASE ReadNull(t)
  <2>1. /\ task[t].pc = "null" /\ UNCHANGED <<req, misuse>>
        /\ task'[t].pc \in {"size", Return(t)} /\ \A u \in Tasks \ {t} : task'[u] = task[u]
    BY <1>6, LoopMoves DEF ReadNull, At
  <2>2. ram'[v].own = "null" /\ \A w \in Vars \ {v} : ram'[w] = ram[w]
    BY <1>0, <1>6 DEF ReadNull, TypeOK, NullPtr
  <2>3. Literal'
    BY <1>0, <2>2 DEF Literal
  <2>4. Dangling'
    BY <1>0, <2>1, <2>2 DEF Dangling, Replacing
  <2>5. Exclusive'
    BY <1>0, <2>1, <2>2 DEF Exclusive, Booted, At, Tasks
  <2> QED  BY <1>0, <2>1, <2>3, <2>4, <2>5 DEF Owned, Safe, MemorySafeOnceBooted
<1> QED  BY <1>1, <1>2, <1>3, <1>4, <1>5, <1>6 DEF ReadVariables

\* While a callback that began after the boot is not replacing a string, no
\* pointer of the table dangles.
LEMMA NothingDangles ==
    ASSUME Owned, req.booted, task["host"].pc \notin {"null", "dup"}
    PROVE  /\ \A v \in Vars : ram[v].own # "freed" /\ ReadMisuse(ram[v]) = {}
           /\ PrintMisuse = {}
<1>1. \A v \in Vars : ram[v].own # "freed"
  BY DEF Owned, Dangling, Exclusive, Booted, At, Replacing, Tasks
<1>2. \A v \in Vars : ReadMisuse(ram[v]) = {}
  BY <1>1 DEF ReadMisuse
<1> QED  BY <1>1, <1>2 DEF PrintMisuse

\* Every step of app_main. No callback that began after the boot runs yet.
LEMMA MainOwned ==
    ASSUME TypeOK, Owned, MainStep
    PROVE  Owned'
<1>0. /\ "main" \in Tasks /\ \A p \in {"boot", "check", "defaults"} : At("main", p) => ~Booted
      /\ Safe
  BY DEF Tasks, At, Booted, Owned, Safe, MemorySafeOnceBooted
<1>1. CASE ReadVariables("main")
  <2>1. ~Booted
    BY <1>1 DEF ReadVariables, ReadOpen, ReadSize, ReadAlloc, ReadGet, ReadFree, ReadNull, Booted, At
  <2> QED  BY <1>0, <1>1, <2>1, ReadVariablesOwned
<1>2. CASE MainBoot \/ MainCheck \/ MainDefault
  <2>1. /\ task["main"].pc \in {"boot", "check", "defaults"} /\ ~Booted
        /\ UNCHANGED <<ram, req, misuse>>
    BY <1>0, <1>2 DEF MainBoot, MainCheck, MainDefault, At
  <2>2. \A u \in Tasks \ {"main"} : task'[u] = task[u]
    BY <1>0, <1>2, LoopMoves, GotoMoves DEF MainBoot, MainCheck, MainDefault, TypeOK
  <2>3. ~req.booted
    BY <2>1 DEF Owned, Exclusive
  <2> QED  BY <1>0, <2>1, <2>2, <2>3, PlainOwned DEF Safe, MemorySafeOnceBooted
<1> QED  BY <1>1, <1>2 DEF MainStep

\* The events that start a callback.
LEMMA HostEventOwned ==
    ASSUME TypeOK, Owned, OnSync \/ HostEvent
    PROVE  Owned'
<1> DEFINE Start == /\ task["host"].pc \in {"presync", "idle"} /\ req'.booted = Booted
                    /\ UNCHANGED <<ram, misuse>> /\ Goto("host", "open")
<1>0. Start
  <2>1. OnSync \/ GapEvent => Start
    BY DEF OnSync, GapEvent, NoReq, At, Advertise, Goto
  <2>2. \A job, char, load : GattAccess(job, char, load) => Start
    BY DEF GattAccess, At
  <2> QED  BY <2>1, <2>2 DEF HostEvent
<1>1. task["host"].pc \in {"presync", "idle"} /\ req'.booted = Booted /\ UNCHANGED <<ram, misuse>>
  BY <1>0
<1>2. task'["host"].pc = "open" /\ \A u \in Tasks \ {"host"} : task'[u] = task[u]
  BY <1>0, GotoMoves DEF Tasks
<1> QED  BY <1>1, <1>2, PlainOwned DEF Owned, Safe, MemorySafeOnceBooted, Tasks

\* The steps of a callback that only read the table, or change the flag.
LEMMA CallbackOwned ==
    ASSUME TypeOK, Owned, Respond \/ LogTable \/ Mark \/ Store \/ AdvName \/ AdvData
    PROVE  Owned'
<1>0. /\ "host" \in Tasks /\ InitVar \in Vars /\ NameVar \in Vars /\ IdVar \in Vars
      /\ task["host"].i \in Vars
  BY VarsFacts DEF TypeOK, Tasks
<1>1. task["host"].pc \in {"respond", "print", "mark", "store", "name", "data"}
  BY DEF Respond, LogTable, Mark, Store, AdvName, AdvData, At
<1>2. Safe'
  <2>1. Safe
    BY DEF Owned, Safe, MemorySafeOnceBooted
  <2>2. CASE ~req.booted
    BY <2>1, <2>2 DEF Respond, LogTable, Mark, Store, AdvName, AdvData, Outcome,
                        Safe, MemorySafeOnceBooted
  <2>3. CASE req.booted
    <3>1. PrintMisuse = {} /\ \A v \in Vars : ReadMisuse(ram[v]) = {}
      BY <1>1, <2>3, NothingDangles
    <3> QED  BY <1>0, <2>1, <3>1 DEF Respond, LogTable, Mark, Store, AdvName, AdvData, Outcome,
                             Safe, MemorySafeOnceBooted
  <2> QED  BY <2>2, <2>3
<1>3. CASE ~Reboot
  <2>1. /\ task'["host"].pc \in {"idle", "open", "store", "print", "data"}
        /\ \A u \in Tasks \ {"host"} : task'[u] = task[u]
    BY <1>0, <1>3, LoopMoves, GotoMoves
    DEF Respond, LogTable, Mark, Store, AdvName, AdvData, Outcome, Advertise, TypeOK
  <2>2. req'.booted => Booted
    BY <1>3, SMTT(30) DEF Respond, LogTable, Mark, Store, AdvName, AdvData, Outcome, NoReq, Owned, Exclusive,
                TypeOK
  <2>3. ram' = ram \/ \E p : ram' = [ram EXCEPT ![InitVar] = p] /\ (p = ram[InitVar] \/ p.own = "rodata")
    BY <1>3 DEF Respond, LogTable, Mark, Store, AdvName, AdvData, Outcome, FlagOrDefault, Rodata
  <2>4. \A v \in Vars : /\ ram'[v].own = "rodata" => v = InitVar \/ ram[v].own = "rodata"
                        /\ ram'[v].own = "freed" => ram[v].own = "freed"
    BY <1>0, <2>3 DEF TypeOK
  <2> QED  BY <1>0, <1>1, <1>2, <2>1, <2>2, <2>4, PlainOwned
<1> QED  BY <1>2, <1>3, RebootOwned DEF Respond, LogTable, Mark, Store, AdvName, AdvData, Outcome

\* free in fillVariblseFromJsonString: the key is not the flag, so that the
\* string is no literal, and the callback has the table for itself.
LEMMA FillFreeOwned ==
    ASSUME TypeOK, Owned, FillFree
    PROVE  Owned'
<1> DEFINE v == task["host"].i
<1>0. /\ "host" \in Tasks /\ v \in Vars /\ ram[v] \in Pointers /\ task["host"].pc = "fill"
      /\ Safe /\ Literal /\ Dangling /\ Exclusive
  BY DEF TypeOK, Owned, FillFree, At, Tasks
<1>1. CASE v \in DOMAIN req.load
  <2>1. NoFlagPayload => v # InitVar
    <3>1. req.load = <<>> => DOMAIN req.load = {}
      OBVIOUS
    <3> QED  BY <1>1, <3>1 DEF NoFlagPayload, TypeOK
  <2>2. NoFlagPayload /\ req.booted => FreeMisuse(ram[v]) = {}
    BY <1>0, <2>1, NothingDangles DEF Literal, FreeMisuse
  <2>3. Safe'
    BY <1>0, <1>1, <2>2 DEF FillFree, Outcome, Safe, MemorySafeOnceBooted
  <2>4. CASE ~Reboot
    <3>1. /\ ram' = [ram EXCEPT ![v] = Released(ram[v])] /\ Goto("host", "dup") /\ req' = req
      BY <1>1, <2>4 DEF FillFree, Outcome
    <3>2. /\ task'["host"].pc = "dup" /\ task'["host"].i = v
          /\ \A u \in Tasks \ {"host"} : task'[u] = task[u]
      BY <1>0, <3>1, GotoMoves
    <3>3. ram'[v].own \in {"null", "freed", "rodata"} /\ (ram'[v].own = "rodata" => FALSE)
          /\ \A w \in Vars \ {v} : ram'[w] = ram[w]
      BY <1>0, <3>1 DEF TypeOK, Released, Pointers
    <3>4. Literal'
      BY <1>0, <3>3 DEF Literal
    <3>5. Dangling'
      BY <1>0, <3>2, <3>3 DEF Dangling, Replacing
    <3>6. Exclusive'
      BY <1>0, <3>1, <3>2 DEF Exclusive, Booted, At, Tasks
    <3> QED  BY <2>3, <3>4, <3>5, <3>6 DEF Owned, Safe, MemorySafeOnceBooted
  <2> QED  BY <1>1, <2>3, <2>4, RebootOwned
<1>2. CASE v \notin DOMAIN req.load
  <2>1. Loop("host", "fill", "mark") /\ UNCHANGED <<ram, req, misuse>>
    BY <1>2 DEF FillFree
  <2>2. task'["host"].pc \in {"fill", "mark"} /\ \A u \in Tasks \ {"host"} : task'[u] = task[u]
    BY <1>0, <2>1, LoopMoves
  <2> QED  BY <1>0, <2>1, <2>2, PlainOwned DEF Exclusive, Safe, MemorySafeOnceBooted
<1> QED  BY <1>1, <1>2

\* strdup replaces the pointer that was released.
LEMMA FillDupOwned ==
    ASSUME TypeOK, Owned, FillDup
    PROVE  Owned'
<1> DEFINE v == task["host"].i
<1>0. /\ "host" \in Tasks /\ v \in Vars /\ task["host"].pc = "dup" /\ UNCHANGED <<req, misuse>>
      /\ Safe /\ Literal /\ Dangling /\ Exclusive
  BY DEF TypeOK, Owned, FillDup, At, Tasks
<1>1. /\ task'["host"].pc \in {"fill", "mark"} /\ \A u \in Tasks \ {"host"} : task'[u] = task[u]
  BY <1>0, LoopMoves DEF FillDup
<1>2. ram'[v].own \in {"heap", "null"} /\ \A w \in Vars \ {v} : ram'[w] = ram[w]
  BY <1>0 DEF FillDup, StrDup, Heap, NullPtr, TypeOK
<1>3. Literal'
  BY <1>0, <1>2 DEF Literal
<1>4. Dangling'
  BY <1>0, <1>1, <1>2 DEF Dangling, Replacing
<1>5. Exclusive'
  BY <1>0, <1>1 DEF Exclusive, Booted, At, Tasks
<1> QED  BY <1>0, <1>3, <1>4, <1>5 DEF Owned, Safe, MemorySafeOnceBooted

\* The console never touches the table in RAM, unless it makes the chip panic.
LEMMA ConsoleOwned ==
    ASSUME TypeOK, Owned, Console
    PROVE  Owned'
<1>1. CASE PrintMRD
  BY <1>1, RebootOwned DEF PrintMRD, Owned, Safe, MemorySafeOnceBooted
<1>2. CASE ~PrintMRD
  <2>1. UNCHANGED <<ram, req, misuse>>
        /\ (task' = task \/ task' = [t \in Tasks |-> [task[t] EXCEPT !.live = FALSE]])
    BY <1>2 DEF Console, SetNvs, DelNvs, EraseNvs, EraseInit
  <2>2. \A t \in Tasks : task[t] \in [pc : PCs, i : Vars, sz : Nat, live : BOOLEAN]
    BY DEF TypeOK
  <2>3. \A t \in Tasks : /\ task'[t].pc = task[t].pc /\ task'[t].i = task[t].i
                         /\ task'[t].sz = task[t].sz
    BY <2>1, <2>2
  <2>4. Literal' /\ Dangling'
    BY <2>1, <2>3 DEF Owned, Literal, Dangling, Replacing
  <2>5. Exclusive'
    BY <2>1, <2>3 DEF Owned, Exclusive, Booted, At, Tasks
  <2> QED  BY <2>1, <2>4, <2>5 DEF Owned, Safe, MemorySafeOnceBooted
<1> QED  BY <1>1, <1>2

LEMMA InitOwned == Init => Owned
BY DEF Init, Owned, Safe, MemorySafeOnceBooted, Literal, Dangling, Exclusive, NullPtr, NoReq

LEMMA NextOwned ==
    ASSUME TypeOK, Owned, [Next]_vars
    PROVE  Owned'
<1>1. CASE UNCHANGED vars
  BY <1>1 DEF Owned, Safe, MemorySafeOnceBooted, Literal, Dangling, Exclusive, Replacing, Booted, At,
              vars, flash, radio, history
<1>2. CASE PowerCycle
  BY <1>2, RebootOwned DEF PowerCycle, Owned, Safe, MemorySafeOnceBooted
<1>3. CASE Step
  <2>1. CASE MainStep
    BY <2>1, MainOwned
  <2>2. CASE OnSync \/ HostEvent
    BY <2>2, HostEventOwned
  <2>3. CASE ReadVariables("host")
    BY <2>3, ReadVariablesOwned DEF Tasks
  <2>4. CASE Respond \/ LogTable \/ Mark \/ Store \/ AdvName \/ AdvData
    BY <2>4, CallbackOwned
  <2>5. CASE FillFree
    BY <2>5, FillFreeOwned
  <2>6. CASE FillDup
    BY <2>6, FillDupOwned
  <2>7. CASE Console
    BY <2>7, ConsoleOwned
  <2> QED  BY <1>3, <2>1, <2>2, <2>3, <2>4, <2>5, <2>6, <2>7 DEF Step, Callback
<1> QED  BY <1>1, <1>2, <1>3 DEF Next

\* Whatever the payloads, the strings, the faults and the number of resets, as
\* long as no payload names the flag: a callback that began after app_main was
\* through releases no pointer of the table twice, reads and writes none after
\* its release, overruns no buffer and frees no literal
\* (main/myRemoteDevice.c:46-104, main/ble.c:6-79).
THEOREM AlwaysMemorySafe == ASSUME NoFlagPayload PROVE Spec => []MemorySafeOnceBooted
<1>1. Init => IInv /\ Owned
  BY InitIInv, InitOwned
<1>2. (IInv /\ Owned) /\ [Next]_vars => (IInv /\ Owned)'
  BY NextIInv, NextOwned DEF IInv
<1>3. IInv /\ Owned => MemorySafeOnceBooted
  BY DEF Owned, Safe
<1> QED  BY <1>1, <1>2, <1>3, PTL DEF Spec
=============================================================================
