---------------------------- MODULE Provisioning ----------------------------
(***************************************************************************)
(* The table of provisioned variables (main/myRemoteDevice.c) and the      *)
(* three tasks that share it without a lock:                               *)
(*   "main"  app_main: reads the table from NVS, and writes the defaults   *)
(*           when the device ID is missing;                                *)
(*   "host"  the NimBLE host task (main/ble.c): GATT reads and writes, and *)
(*           the advertisement computed from the table;                    *)
(*   repl    the console task, which changes NVS behind the table's back.  *)
(* One action is one C statement that touches shared state: an NVS call, a *)
(* malloc, a free, or an assignment to variables[i]->value.                *)
(***************************************************************************)
EXTENDS Naturals

CONSTANTS
    NumVars,         \* NUM_VARIABLES; the flag is first and the ID is last
    Strings,         \* the strings the table and NVS may hold
    TrueStr,         \* INITIALIZED_TRUE_STRING
    FalseStr,        \* INITIALIZED_FALSE_STRING
    DefaultValue,    \* variables[i]->defaultValue
    Size,            \* bytes of a string with its terminator
    AtoI,            \* atoi of a string
    DefaultGapName,  \* the name NimBLE starts with
    GapNames,        \* names ble_svc_gap_device_name_set accepts
    AdvNames,        \* names that leave room for the manufacturer data
    Absent,          \* a key NVS does not hold
    Garbage,         \* the contents of uninitialised or released memory
    Payloads,        \* the JSON objects a central may write
    FlashImages,     \* the contents NVS may have when the device is first on
    SetValues,       \* the values the operator gives to setNvs
    Commands,        \* the other console commands in use: "del", "erase", "print"
    Faults,          \* the calls that may fail: "malloc", "flash", "init"
    MaxResets        \* bound on power cycles

Vars == 1 .. NumVars
InitVar == 1
NameVar == NumVars - 1
IdVar == NumVars

Stored == Strings \cup {Absent, Garbage}
Tasks == {"main", "host"}

ASSUME TableAssumption == NumVars \in Nat /\ NumVars >= 3
ASSUME StringAssumption ==
    /\ {TrueStr, FalseStr} \subseteq Strings /\ TrueStr # FalseStr
    /\ Absent \notin Strings /\ Garbage \notin Strings /\ Absent # Garbage
    /\ DefaultValue \in [Vars -> Strings] /\ DefaultValue[InitVar] = FalseStr
    /\ Size \in [Strings \cup {Garbage} -> Nat \ {0}]
    /\ AtoI \in [Strings -> Nat]
    /\ AdvNames \subseteq GapNames /\ GapNames \subseteq Strings
    /\ DefaultGapName \in AdvNames
ASSUME EnvironmentAssumption ==
    /\ Payloads \subseteq UNION {[S -> Strings] : S \in SUBSET Vars}
    /\ FlashImages \subseteq [Vars -> Strings \cup {Absent}]
    /\ SetValues \subseteq Strings /\ Commands \subseteq {"del", "erase", "print"}
    /\ Faults \subseteq {"malloc", "flash", "init"}
    /\ MaxResets \in Nat

VARIABLES
    nvs,        \* namespace "storage": what each nvsKey holds
    nvsReady,   \* the NVS partition is initialised
    ram,        \* variables[i]->value: what the pointer points to
    task,       \* control state of app_main and of the host task
    req,        \* the callback the host task is running
    gapName,    \* the device name of the GAP service
    adv,        \* the manufacturer data on the air
    repl,       \* the console task is inside eraseNvsData
    resets,     \* power cycles so far
    misuse,     \* history: undefined memory operations of callbacks that
                \* began after the boot
    acked,      \* history: what the last GATT write set that began after
                \* the boot, less the keys the operator changed since
    fresh,      \* history: the last advertisement began after the boot
    idLoss      \* history: this boot failed to load an ID that NVS holds

flash == <<nvs, nvsReady>>
radio == <<gapName, adv>>
history == <<acked, fresh, idLoss>>
vars == <<nvs, nvsReady, ram, task, req, gapName, adv, repl, resets, misuse,
          acked, fresh, idLoss>>

-----------------------------------------------------------------------------
(* What variables[i]->value may point to.                                  *)

Pointers == [own : {"null", "rodata", "heap", "freed"},
             val : Strings \cup {Garbage}, cap : Nat]

NullPtr == [own |-> "null", val |-> Garbage, cap |-> 0]
Rodata(s) == [own |-> "rodata", val |-> s, cap |-> 0]
Heap(s, n) == [own |-> "heap", val |-> s, cap |-> n]

\* What malloc of n bytes returns, and what free leaves.
NewBufferShort(n) == Heap(Garbage, n - 1)
NewBuffer(n) == Heap(Garbage, n)
Released(p) == IF p.own = "null" THEN p ELSE [p EXCEPT !.own = "freed"]

\* What a read through the pointer yields.
Seen(p) == IF p.own \in {"rodata", "heap"} THEN p.val ELSE Garbage

\* The misuse of free(p), of a read through p, and of nvs_get_str filling p.
FreeMisuse(p) ==
    CASE p.own = "rodata" -> {"wildFree"}
      [] p.own = "freed" -> {"doubleFree"}
      [] OTHER -> {}
ReadMisuse(p) == IF p.own = "freed" THEN {"staleRead"} ELSE {}
FillMisuse(p, n) ==
    CASE p.own = "rodata" -> {"wildWrite"}
      [] p.own = "freed" -> {"staleWrite"}
      [] p.own = "heap" /\ p.cap < n -> {"overrun"}
      [] OTHER -> {}

\* The advertised bytes: flag, and initializedCustomDataTrue[3], a uint8_t.
NoAdv == [flag |-> "none", id |-> 0]
Junk == [flag |-> "junk", id |-> 0]
ManufacturerData(flag, id) ==
    IF flag = TrueStr /\ id \in Strings
    THEN [flag |-> "initialized", id |-> AtoI[id] % 256]
    ELSE IF flag = FalseStr THEN [flag |-> "uninitialized", id |-> 0] ELSE Junk

NoReq == [job |-> "none", char |-> "none", load |-> <<>>, booted |-> FALSE]
BootTask == [t \in Tasks |->
                [pc |-> IF t = "main" THEN "boot" ELSE "presync",
                 i |-> 1, sz |-> 0, live |-> FALSE]]

At(t, pc) == task[t].pc = pc
Booted == At("main", "done")

-----------------------------------------------------------------------------
(* A reset loses everything but flash. Undefined behaviour either goes on  *)
(* unnoticed or ends in a panic, which reboots the chip; what the hardware *)
(* or the heap always traps (Fatal) only panics.                           *)

Fatal == {"wildFree", "wildWrite", "nullDeref"}
Misuses == Fatal \cup {"doubleFree", "staleRead", "staleWrite", "overrun"}

\* What an erase that was cut short leaves: NVS has its keys in any sectors.
Survivors == {[v \in Vars |-> IF v \in kept THEN nvs[v] ELSE Absent] : kept \in SUBSET Vars}

Reboot ==
    /\ ram' = [v \in Vars |-> NullPtr]
    /\ task' = BootTask
    /\ req' = NoReq
    /\ gapName' = DefaultGapName
    /\ adv' = NoAdv
    /\ repl' = "idle"
    /\ nvsReady' \in {TRUE} \cup {b \in {FALSE} : "init" \in Faults}
    /\ fresh' = FALSE
    /\ idLoss' = FALSE
    /\ acked' = IF At("host", "store") THEN <<>> ELSE acked
    /\ nvs' \in IF repl = "erasing" THEN Survivors ELSE {nvs}

Outcome(kinds, Effect) ==
    /\ misuse' = IF req.booted THEN misuse \cup kinds ELSE misuse
    /\ \/ kinds \cap Fatal = {} /\ Effect
       \/ kinds # {} /\ Reboot

Usable(t) == nvsReady /\ task[t].live
Goto(t, pc) == task' = [task EXCEPT ![t].pc = pc]

\* Task t goes on with the next variable, or leaves the loop and closes the
\* handle.
LoopOneMore(t, again, exit) ==
    task' = [task EXCEPT ![t] =
        IF @.i <= NumVars
        THEN [pc |-> again, i |-> @.i + 1, sz |-> 0, live |-> @.live]
        ELSE [pc |-> exit, i |-> 1, sz |-> 0, live |-> FALSE]]
Loop(t, again, exit) ==
    task' = [task EXCEPT ![t] =
        IF @.i < NumVars
        THEN [pc |-> again, i |-> @.i + 1, sz |-> 0, live |-> @.live]
        ELSE [pc |-> exit, i |-> 1, sz |-> 0, live |-> FALSE]]

-----------------------------------------------------------------------------
(* readVariablesFromNvs, run by both tasks.                                *)

\* Where readVariablesFromNvs returns to.
Return(t) ==
    IF t = "main" THEN "check"
    ELSE CASE req.job = "read" -> "respond"
           [] req.job = "write" -> "fill"
           [] OTHER -> "name"

ReadOpen(t) ==
    /\ At(t, "open")
    /\ task' = [task EXCEPT
            ![t].pc = IF nvsReady THEN "size" ELSE Return(t),
            ![t].live = nvsReady]
    /\ idLoss' = (idLoss \/ ~nvsReady)
    /\ UNCHANGED <<flash, ram, req, radio, repl, misuse, acked, fresh>>

\* The first nvs_get_str asks for the size; an absent key keeps its old value.
ReadSize(t) ==
    /\ At(t, "size")
    /\ LET key == nvs[task[t].i] IN
        IF Usable(t) /\ key # Absent
        THEN task' = [task EXCEPT ![t].pc = "alloc", ![t].sz = Size[key]]
        ELSE Loop(t, "size", Return(t))
    /\ UNCHANGED <<flash, ram, req, radio, repl, misuse, history>>

\* The old value is not released: the slot simply points to the new buffer.
ReadAlloc(t) ==
    /\ At(t, "alloc")
    /\ LET v == task[t].i IN
        \/ /\ ram' = [ram EXCEPT ![v] = NewBuffer(task[t].sz)]
           /\ Goto(t, "get")
           /\ UNCHANGED idLoss
        \/ /\ "malloc" \in Faults
           /\ ram' = [ram EXCEPT ![v] = NullPtr]
           /\ Loop(t, "size", Return(t))
           /\ idLoss' = (idLoss \/ v = IdVar)
    /\ UNCHANGED <<flash, req, radio, repl, misuse, acked, fresh>>

ReadGetUnchecked(t) ==
    /\ At(t, "get")
    /\ LET v == task[t].i
           fits == Usable(t) /\ nvs[v] # Absent /\ Size[nvs[v]] <= task[t].sz
       IN ram' = IF fits /\ ram[v].own = "heap"
                 THEN [ram EXCEPT ![v].val = nvs[v]] ELSE ram
    /\ Loop(t, "size", Return(t))
    /\ UNCHANGED <<flash, req, radio, repl, misuse, history>>

\* The second nvs_get_str fills whatever the slot points to by now; with a
\* null pointer it only asks for the size again.
ReadGet(t) ==
    /\ At(t, "get")
    /\ LET v == task[t].i
           fits == Usable(t) /\ nvs[v] # Absent /\ Size[nvs[v]] <= task[t].sz
       IN
        \/ /\ fits
           /\ Outcome(FillMisuse(ram[v], Size[nvs[v]]),
                /\ ram' = IF ram[v].own = "heap"
                          THEN [ram EXCEPT ![v].val = nvs[v]] ELSE ram
                /\ Loop(t, "size", Return(t))
                /\ UNCHANGED <<flash, req, radio, repl, history>>)
        \/ /\ ~fits
           /\ Goto(t, "free")
           /\ idLoss' = (idLoss \/ v = IdVar)
           /\ UNCHANGED <<flash, ram, req, radio, repl, misuse, acked, fresh>>

ReadFree(t) ==
    /\ At(t, "free")
    /\ LET v == task[t].i IN
        Outcome(FreeMisuse(ram[v]),
            /\ ram' = [ram EXCEPT ![v] = Released(@)]
            /\ Goto(t, "null")
            /\ UNCHANGED <<flash, req, radio, repl, history>>)

ReadNullDangling(t) ==
    /\ At(t, "null")
    /\ Loop(t, "size", Return(t))
    /\ UNCHANGED <<flash, ram, req, radio, repl, misuse, history>>
ReadNull(t) ==
    /\ At(t, "null")
    /\ ram' = [ram EXCEPT ![task[t].i] = NullPtr]
    /\ Loop(t, "size", Return(t))
    /\ UNCHANGED <<flash, req, radio, repl, misuse, history>>

ReadVariables(t) ==
    ReadOpen(t) \/ ReadSize(t) \/ ReadAlloc(t) \/ ReadGet(t) \/ ReadFree(t) \/ ReadNull(t)

-----------------------------------------------------------------------------
(* app_main after nimble() has started the host task.                      *)

MainBoot ==
    /\ At("main", "boot")
    /\ Goto("main", "open")
    /\ UNCHANGED <<flash, ram, req, radio, repl, misuse, history>>

\* variablesAreEmpty looks at the ID alone.
VariablesAreEmptyByFlag == Seen(ram[InitVar]) # TrueStr
VariablesAreEmpty == ram[IdVar].own = "null"

\* writeDefaultValues gives up when nvs_open fails.
MainCheck ==
    /\ At("main", "check")
    /\ task' = [task EXCEPT
            !["main"].pc = IF VariablesAreEmpty /\ nvsReady THEN "defaults" ELSE "done",
            !["main"].live = VariablesAreEmpty /\ nvsReady]
    /\ UNCHANGED <<flash, ram, req, radio, repl, misuse, history>>

\* One nvs_set_str of writeDefaultValues; NVS makes each one durable.
WriteDefaultFromLast(v) ==
    LET w == NumVars + 1 - v IN nvs' = [nvs EXCEPT ![w] = DefaultValue[w]]
WriteDefault(v) == nvs' = [nvs EXCEPT ![v] = DefaultValue[v]]

MainDefault ==
    /\ At("main", "defaults")
    /\ \/ WriteDefault(task["main"].i)
       \/ "flash" \in Faults /\ UNCHANGED nvs
    /\ Loop("main", "defaults", "done")
    /\ UNCHANGED <<nvsReady, ram, req, radio, repl, misuse, history>>

MainStep == MainBoot \/ ReadVariables("main") \/ MainCheck \/ MainDefault

-----------------------------------------------------------------------------
(* The NimBLE host task.                                                   *)

\* ble_app_advertise begins by reading the table.
AdvertiseStale == task' = [task EXCEPT !["host"].pc = "name"]
Advertise == task' = [task EXCEPT !["host"].pc = "open"]

\* ble_app_on_sync: once the host and the controller are in sync.
OnSync ==
    /\ At("host", "presync")
    /\ Advertise
    /\ req' = [NoReq EXCEPT !.job = "adv", !.booted = Booted]
    /\ fresh' = Booted
    /\ UNCHANGED <<flash, ram, radio, repl, misuse, acked, idLoss>>

\* ble_gap_event: a failed connection, the end of an advertisement or a
\* disconnection; what it does to the links is in module GapLink.
GapEvent ==
    /\ At("host", "idle")
    /\ Advertise
    /\ req' = [NoReq EXCEPT !.job = "adv", !.booted = Booted]
    /\ fresh' = Booted
    /\ UNCHANGED <<flash, ram, radio, repl, misuse, acked, idLoss>>

\* A GATT access enters uninitializedCallback or initializedCallback, and
\* both begin by reading the table.
GattAccess(job, char, load) ==
    /\ At("host", "idle")
    /\ Goto("host", "open")
    /\ req' = [job |-> job, char |-> char, load |-> load, booted |-> Booted]
    /\ UNCHANGED <<flash, ram, radio, repl, misuse, history>>

PrintMisuse == UNION {ReadMisuse(ram[v]) : v \in Vars}

\* The read response takes the name, the ID and the flag from the table, and
\* printVariables logs all of it.
Respond ==
    /\ At("host", "respond")
    /\ Outcome(PrintMisuse,
        /\ Goto("host", "idle")
        /\ req' = NoReq
        /\ UNCHANGED <<flash, ram, radio, repl, history>>)

\* fillVariablseFromJsonString: free the old string, then strdup the new one.
\* A text that does not parse fills nothing, like an object without our keys.
FillFree ==
    /\ At("host", "fill")
    /\ LET v == task["host"].i IN
        IF v \in DOMAIN req.load
        THEN Outcome(FreeMisuse(ram[v]),
                /\ ram' = [ram EXCEPT ![v] = Released(@)]
                /\ Goto("host", "dup")
                /\ UNCHANGED <<flash, req, radio, repl, history>>)
        ELSE /\ Loop("host", "fill", "mark")
             /\ UNCHANGED <<flash, ram, req, radio, repl, misuse, history>>

StrDupLost(old, new) == {old}
StrDupKeep(old, new) == {Heap(new, Size[new])} \cup {p \in {old} : "malloc" \in Faults}
StrDup(old, new) == {Heap(new, Size[new])} \cup {p \in {NullPtr} : "malloc" \in Faults}

FillDup ==
    /\ At("host", "dup")
    /\ LET v == task["host"].i IN
        \E p \in StrDup(ram[v], req.load[v]) :
            /\ ram' = [ram EXCEPT ![v] = p]
            /\ idLoss' = (idLoss \/ (v = IdVar /\ p = NullPtr))
    /\ Loop("host", "fill", "mark")
    /\ UNCHANGED <<flash, req, radio, repl, misuse, acked, fresh>>

\* What a GATT write sets: the keys of the payload, and the flag that
\* uninitializedCallback sets.
Written ==
    [v \in DOMAIN req.load \cup {w \in {InitVar} : req.char = "uninitialized"} |->
        IF v = InitVar /\ req.char = "uninitialized" THEN TrueStr ELSE req.load[v]]

\* uninitializedCallback sets the flag to a string literal, whatever was
\* parsed; then writeVariablesToNvs opens its handle, without a check.
Mark ==
    /\ At("host", "mark")
    /\ ram' = IF req.char = "uninitialized"
              THEN [ram EXCEPT ![InitVar] = Rodata(TrueStr)] ELSE ram
    /\ task' = [task EXCEPT !["host"].pc = "store", !["host"].live = nvsReady]
    /\ acked' = IF req.booted THEN Written ELSE <<>>
    /\ UNCHANGED <<flash, req, radio, repl, misuse, fresh, idLoss>>

\* One turn of writeVariablesToNvs: a null value leaves its key alone.
WrittenBackOneLess(v) == v < NumVars /\ ram[v].own # "null"
WrittenBack(v) == ram[v].own # "null"

Store ==
    /\ At("host", "store")
    /\ LET v == task["host"].i IN
        Outcome(IF WrittenBack(v) THEN ReadMisuse(ram[v]) ELSE {},
            /\ IF WrittenBack(v) /\ Usable("host")
               THEN \/ nvs' = [nvs EXCEPT ![v] = Seen(ram[v])]
                    \/ "flash" \in Faults /\ UNCHANGED nvs
               ELSE UNCHANGED nvs
            /\ Loop("host", "store", "print")
            /\ UNCHANGED <<nvsReady, ram, req, radio, repl, history>>)

\* printVariables ends a write callback, and ble_app_advertise begins.
LogTableOnly ==
    /\ At("host", "print")
    /\ Goto("host", "idle")
    /\ req' = NoReq
    /\ UNCHANGED <<flash, ram, radio, repl, misuse, history>>
LogTable ==
    /\ At("host", "print")
    /\ Outcome(PrintMisuse,
        /\ Advertise
        /\ req' = [req EXCEPT !.job = "adv"]
        /\ fresh' = Booted
        /\ UNCHANGED <<flash, ram, radio, repl, acked, idLoss>>)

FlagAsItIs(p) == p
FlagOrDefault(p) == IF p.own = "null" THEN Rodata(FalseStr) ELSE p

\* ble_app_advertise after the table was read: name the device, and take a
\* missing flag for "not initialized".
AdvName ==
    /\ At("host", "name")
    /\ LET s == Seen(ram[NameVar]) IN
        Outcome(ReadMisuse(ram[NameVar]),
            /\ gapName' \in
                 IF ram[NameVar].own = "null" THEN {gapName}
                 ELSE IF s = Garbage THEN {gapName, Garbage}
                 ELSE IF s \in GapNames THEN {s} ELSE {gapName}
            /\ ram' = [ram EXCEPT ![InitVar] = FlagOrDefault(@)]
            /\ Goto("host", "data")
            /\ UNCHANGED <<flash, req, adv, repl, history>>)

\* strcmp the flag, atoi the ID, set the fields, start to advertise. Fields
\* that do not fit are refused and the old ones stay on the air.
AdvData ==
    /\ At("host", "data")
    /\ LET flag == ram[InitVar]
           id == ram[IdVar]
           data == ManufacturerData(Seen(flag), Seen(id))
           isTrue == Seen(flag) = TrueStr
       IN Outcome({k \in {"nullDeref"} :
                        flag.own = "null" \/ (isTrue /\ id.own = "null")}
                  \cup ReadMisuse(flag) \cup (IF isTrue THEN ReadMisuse(id) ELSE {}),
            /\ adv' \in IF gapName \in AdvNames THEN {data}
                        ELSE IF gapName = Garbage THEN {data, adv} ELSE {adv}
            /\ Goto("host", "idle")
            /\ req' = NoReq
            /\ UNCHANGED <<flash, ram, gapName, repl, history>>)

Callback ==
    \/ ReadVariables("host") \/ Respond \/ FillFree \/ FillDup \/ Mark \/ Store
    \/ LogTable \/ AdvName \/ AdvData

HostEvent ==
    \/ GapEvent
    \/ \E char \in {"uninitialized", "initialized"} :
        \/ GattAccess("read", char, <<>>)
        \/ \E load \in Payloads : GattAccess("write", char, load)

-----------------------------------------------------------------------------
(* The console, which starts when app_main is through.                     *)

SetNvs(v, s) ==
    /\ Booted /\ repl = "idle" /\ nvsReady
    /\ nvs' = [nvs EXCEPT ![v] = s]
    /\ acked' = [w \in DOMAIN acked \ {v} |-> acked[w]]
    /\ fresh' = FALSE
    /\ UNCHANGED <<nvsReady, ram, task, req, radio, repl, misuse, idLoss>>

\* Without an ID the next boot writes the defaults.
DelNvs(v) ==
    /\ "del" \in Commands /\ Booted /\ repl = "idle" /\ nvsReady
    /\ nvs' = [nvs EXCEPT ![v] = Absent]
    /\ acked' = IF v = IdVar THEN <<>> ELSE [w \in DOMAIN acked \ {v} |-> acked[w]]
    /\ fresh' = FALSE
    /\ UNCHANGED <<nvsReady, ram, task, req, radio, repl, misuse, idLoss>>

\* nvs_flash_erase closes every open handle and takes NVS down, so that
\* nobody sees the keys go.
EraseNvs ==
    /\ "erase" \in Commands /\ Booted /\ repl = "idle"
    /\ nvsReady' = FALSE
    /\ task' = [t \in Tasks |-> [task[t] EXCEPT !.live = FALSE]]
    /\ repl' = "erasing"
    /\ acked' = <<>>
    /\ fresh' = FALSE
    /\ UNCHANGED <<nvs, ram, req, radio, misuse, idLoss>>

\* The erase is through or has failed; nvs_flash_init follows in any case.
EraseInit ==
    /\ repl = "erasing"
    /\ nvs' \in {[v \in Vars |-> Absent]} \cup {n \in Survivors : "flash" \in Faults}
    /\ nvsReady' \in {TRUE} \cup {b \in {FALSE} : "init" \in Faults}
    /\ repl' = "idle"
    /\ UNCHANGED <<ram, task, req, radio, misuse, history>>

\* printMRD prints the table while the host task may be between free and
\* strdup: it prints what is left of the string, or the chip panics.
PrintMRD ==
    /\ "print" \in Commands /\ Booted /\ repl = "idle"
    /\ PrintMisuse # {}
    /\ Reboot
    /\ UNCHANGED misuse

Console ==
    \/ \E v \in Vars : DelNvs(v) \/ \E s \in SetValues : SetNvs(v, s)
    \/ EraseNvs
    \/ EraseInit
    \/ PrintMRD

-----------------------------------------------------------------------------
\* Power loss, or esp_restart from "do 2" and from the OTA task.
PowerCycle ==
    /\ resets < MaxResets
    /\ resets' = resets + 1
    /\ Reboot
    /\ UNCHANGED misuse

Init ==
    /\ nvs \in FlashImages
    /\ nvsReady = TRUE
    /\ ram = [v \in Vars |-> NullPtr]
    /\ task = BootTask
    /\ req = NoReq
    /\ gapName = DefaultGapName
    /\ adv = NoAdv
    /\ repl = "idle"
    /\ resets = 0
    /\ misuse = {}
    /\ acked = <<>>
    /\ fresh = FALSE
    /\ idLoss = FALSE

Step == MainStep \/ OnSync \/ Callback \/ HostEvent \/ Console

Next == (Step /\ UNCHANGED resets) \/ PowerCycle

Spec == Init /\ [][Next]_vars

\* The scheduler runs every ready task: app_main and a callback go on, the
\* controller comes up, and the console command finishes.
FairSpec ==
    /\ Spec
    /\ WF_vars(MainStep /\ UNCHANGED resets)
    /\ WF_vars((OnSync \/ Callback) /\ UNCHANGED resets)
    /\ WF_vars(EraseInit /\ UNCHANGED resets)

-----------------------------------------------------------------------------
PCs == {"boot", "presync", "idle", "open", "size", "alloc", "get", "free",
        "null", "check", "defaults", "done", "respond", "fill", "dup", "mark",
        "store", "print", "name", "data"}

\* The variables have their types.
TypeOK ==
    /\ nvs \in [Vars -> Stored] /\ nvsReady \in BOOLEAN
    /\ ram \in [Vars -> Pointers]
    /\ task \in [Tasks -> [pc : PCs, i : Vars, sz : Nat, live : BOOLEAN]]
    /\ req \in [job : {"none", "adv", "read", "write"},
               char : {"none", "uninitialized", "initialized"},
               load : Payloads \cup {<<>>}, booted : BOOLEAN]
    /\ gapName \in GapNames \cup {Garbage}
    /\ adv \in [flag : {"none", "junk", "initialized", "uninitialized"}, id : 0 .. 255]
    /\ repl \in {"idle", "erasing"} /\ resets \in 0 .. MaxResets
    /\ misuse \subseteq Misuses
    /\ DOMAIN acked \subseteq Vars /\ \A v \in DOMAIN acked : acked[v] \in Strings
    /\ fresh \in BOOLEAN /\ idLoss \in BOOLEAN

\* Once app_main is through, only the host task touches the table, so no
\* pointer of it is released twice, read or written after its release,
\* overrun, or taken from a string literal (main/myRemoteDevice.c:46-104).
MemorySafeOnceBooted == misuse \subseteq {"nullDeref"}

\* Once app_main is through, ble_app_advertise never dereferences a null flag
\* or a null ID (main/ble.c:170-173).
NoNullDerefOnceBooted == "nullDeref" \notin misuse

\* variablesAreEmpty judges by the ID alone (main/myRemoteDevice.c:135-142):
\* unless loading it failed, the defaults are never written over an ID.
EmptinessTestSound ==
    At("main", "check") /\ nvs[IdVar] # Absent /\ ~idLoss => ~VariablesAreEmpty

\* The flag is stored first and the ID last, and no write starts before the
\* first advertisement has given the flag a value: an ID in NVS is never
\* without a flag, whatever the moment the power failed
\* (main/myRemoteDevice.c:97-101, 117-122; main/ble.c:170).
IdNeverWithoutFlag == nvs[IdVar] # Absent => nvs[InitVar] # Absent

\* What the last GATT write set is in NVS before the write is acknowledged and
\* stays there, across resets, until the next write
\* (main/ble.c:34-38, 76-79).
AckedWriteDurable == ~At("host", "store") => \A v \in DOMAIN acked : nvs[v] = acked[v]

\* A GATT read answers what the last acknowledged write has set
\* (main/ble.c:6-16, 48-58).
ReadBack ==
    At("host", "respond") /\ req.booted =>
        \A v \in DOMAIN acked : Seen(ram[v]) = acked[v]

\* An advertisement that began after the boot carries the name, the flag and
\* the ID that NVS holds, if it holds them (main/ble.c:160-183).
AdvMatchesStore ==
    fresh /\ At("host", "idle") =>
        /\ nvs[NameVar] \in GapNames => gapName = nvs[NameVar]
        /\ gapName \in AdvNames /\ Absent \notin {nvs[InitVar], nvs[IdVar]} =>
             adv = ManufacturerData(nvs[InitVar], nvs[IdVar])

\* A callback that began after the boot never stores the contents of released
\* or uninitialised memory in NVS (main/myRemoteDevice.c:99).
NoGarbageStoredOnceBooted ==
    [][req.booted => \A v \in Vars : nvs'[v] = Garbage => nvs[v] = Garbage]_vars

\* What a central, a scanner and the power supply see (module ProvisionedDevice).
boot ==
    IF Booted THEN "up" ELSE IF At("main", "defaults") THEN "defaulting" ELSE "loading"
phase ==
    IF req.job = "write" /\ ~req.booted THEN "meddling"
    ELSE IF At("host", "respond") /\ req.booted THEN "answering"
    ELSE IF At("host", "store") THEN "storing"
    ELSE IF At("host", "data") THEN "named"
    ELSE IF At("host", "print") \/ req.job = "adv" THEN "announcing"
    ELSE "idle"
due ==
    {v \in Vars : \/ (At("main", "defaults") /\ v >= task["main"].i)
                 \/ (At("host", "store") /\ v \in DOMAIN acked /\ v >= task["host"].i)}
answer ==
    [v \in {w \in Vars : phase = "answering" /\ ram[w].own # "null"} |-> Seen(ram[v])]
Device == INSTANCE ProvisionedDevice WITH
    store <- nvs, lost <- idLoss, settled <- fresh, name <- gapName, data <- adv

\* As long as no call fails and the console leaves NVS alone, the device behaves
\* like one that has no table, no pointers and no second task.
BehavesAsDevice == Device!Spec

Meddled == ~Booted /\ req.job = "write"
Stranded == nvs[InitVar] = TrueStr /\ nvs[IdVar] = Absent

\* app_main gets through, wherever the power failed, unless a central keeps
\* writing before it has, or a cut write has left the flag without an ID
\* (main/myRemoteDevice.c:163-173, main/ble.c:170-173).
BootCompletes == <>[](~Meddled /\ ~Stranded) => <>[]Booted

AckedIdIsOffAir ==
    /\ ~At("host", "store") /\ IdVar \in DOMAIN acked
    /\ nvs[InitVar] = TrueStr /\ nvs[NameVar] \in AdvNames
    /\ adv # ManufacturerData(TrueStr, acked[IdVar])

Outdated == ~fresh /\ At("host", "idle")

\* The ID of an acknowledged write reaches the air, if the name leaves room
\* for it (main/ble.c:36-38). After a setNvs, which does not advertise
\* (main/nvsFunctions.c:13-20), that may take until the next event of the link.
AckedIdIsAdvertised ==
    /\ AckedIdIsOffAir ~> (~AckedIdIsOffAir \/ Outdated)
    /\ []<>At("host", "name") => (AckedIdIsOffAir ~> ~AckedIdIsOffAir)
=============================================================================
