-------------------------- MODULE ProvisionedDevice --------------------------
(***************************************************************************)
(* What a central, a scanner and the power supply see of a device that is  *)
(* provisioned over Bluetooth: no table, no pointers, no handles and no    *)
(* second task. A write is stored variable by variable, in order; a read   *)
(* is answered with all that is stored; and the advertisement says it.     *)
(* Only what a central does while the device boots spoils any of this.     *)
(***************************************************************************)
EXTENDS Naturals

CONSTANTS
    NumVars,         \* how many variables; the flag is first and the ID last
    Strings,         \* the values they may have
    TrueStr,         \* the flag of a device that is provisioned
    FalseStr,        \* and of one that is not
    DefaultValue,    \* what the first boot stores
    AtoI,            \* the number that a string begins with
    DefaultGapName,  \* the name before anything is known
    GapNames,        \* names that a device may have
    AdvNames,        \* names that leave room for the manufacturer data
    Absent,          \* a variable that has no value
    Payloads,        \* what a central may write
    FlashImages      \* what the device may hold when it is first on

VARIABLES
    store,    \* the value that the device keeps of each variable
    acked,    \* what the last write has set
    due,      \* the variables of that write, or of the defaults, yet to be stored
    boot,     \* "loading", "defaulting" or "up"
    lost,     \* this boot has not found the ID that is stored
    phase,    \* what the device does for a central or a scanner
    answer,   \* the answer to a read: the values of the variables that have one
    settled,  \* what is on the air was read after the boot
    name,     \* the device name
    data      \* the manufacturer data on the air

air == <<name, data>>
vars == <<store, acked, due, boot, lost, phase, answer, settled, air>>

Variables == 1 .. NumVars
Flag == 1
Name == NumVars - 1
ID == NumVars

\* The values that a write sets: uninitializedCallback sets the flag besides.
WriteOf(load, marks) ==
    [v \in DOMAIN load \cup {w \in {Flag} : marks} |->
        IF v = Flag /\ marks THEN TrueStr ELSE load[v]]

\* A missing flag is taken for "not initialized".
Data(flag, id) ==
    IF flag = TrueStr /\ id \in Strings THEN [flag |-> "initialized", id |-> AtoI[id] % 256]
    ELSE IF flag \in {FalseStr, Absent} THEN [flag |-> "uninitialized", id |-> 0]
    ELSE [flag |-> "junk", id |-> 0]

Init ==
    /\ store \in FlashImages /\ acked = <<>> /\ due = {}
    /\ boot = "loading" /\ lost = FALSE /\ phase = "idle" /\ answer = <<>>
    /\ settled = FALSE /\ name = DefaultGapName /\ data = [flag |-> "none", id |-> 0]

-----------------------------------------------------------------------------
\* The boot, while the rest goes on: it ends with an ID.
StoreDefaults ==
    /\ boot = "loading" /\ (store[ID] = Absent \/ lost)
    /\ boot' = "defaulting" /\ due' = Variables
    /\ UNCHANGED <<store, acked, phase, answer, settled, air>>
FinishLoading ==
    /\ boot = "loading" /\ (store[ID] # Absent \/ phase = "meddling")
    /\ boot' = "up"
    /\ UNCHANGED <<store, acked, due, phase, answer, settled, air>>

\* The next variable that is due is stored, for good.
Keep ==
    \E v \in due :
        /\ \A w \in due : v <= w
        /\ due' = due \ {v}
        /\ store' = [store EXCEPT ![v] = IF boot = "defaulting" THEN DefaultValue[v] ELSE acked[v]]
        /\ boot' = IF boot = "defaulting" /\ due' = {} THEN "up" ELSE boot
        /\ phase' = phase \/ (phase = "storing" /\ due' = {} /\ phase' = "announcing")
        /\ UNCHANGED <<acked, answer, settled, air>>

-----------------------------------------------------------------------------
\* A GATT read.
Answer ==
    /\ phase = "idle" /\ boot = "up" /\ phase' = "answering"
    /\ \A v \in Variables :
         IF store[v] # Absent THEN v \in DOMAIN answer' /\ answer'[v] = store[v]
         ELSE v \in DOMAIN answer' => v = Flag /\ answer'[v] = FalseStr
    /\ UNCHANGED <<store, acked, due, boot, settled, air>>
Answered ==
    /\ phase = "answering" /\ phase' = "idle" /\ answer' = <<>>
    /\ UNCHANGED <<store, acked, due, boot, settled, air>>

\* A GATT write. A flag that was missing is stored with it.
Accept ==
    /\ phase = "idle" /\ boot = "up" /\ phase' = "storing"
    /\ \E load \in Payloads, marks \in BOOLEAN : acked' = WriteOf(load, marks)
    /\ due' = DOMAIN acked'
    /\ UNCHANGED <<store, boot, answer, settled, air>>
KeepFlag ==
    /\ phase = "storing" /\ store[Flag] = Absent /\ Flag \notin DOMAIN acked
    /\ store' = [store EXCEPT ![Flag] = FalseStr]
    /\ UNCHANGED <<acked, due, boot, phase, answer, settled, air>>
Stored ==
    /\ phase = "storing" /\ due = {} /\ phase' = "announcing"
    /\ UNCHANGED <<store, acked, due, boot, answer, settled, air>>

\* A GATT write that begins during the boot may store anything, and takes
\* back what was promised of earlier ones before it does.
Meddle ==
    /\ phase = "idle" /\ boot # "up" /\ phase' = "meddling"
    /\ UNCHANGED <<store, acked, due, boot, answer, settled, air>>
Spoil ==
    /\ phase = "meddling" /\ phase' = phase
    /\ \/ acked' = <<>> /\ store' = store
       \/ /\ acked = <<>> /\ acked' = acked
          /\ \A v \in Variables : store[v] # Absent => store'[v] # Absent
    /\ UNCHANGED <<due, boot, answer, settled, air>>

\* The advertisement: its data are read anew, the name is set, the data go
\* on the air unless the name leaves no room for them.
Renew ==
    /\ \/ phase \in {"idle", "announcing"}
       \/ phase = "meddling" /\ (boot = "up" => store[ID] # Absent)
    /\ phase' = "announcing" /\ settled' = (boot = "up")
    /\ UNCHANGED <<store, acked, due, boot, answer, air>>
SetName ==
    /\ phase = "announcing" /\ phase' = "named"
    /\ settled => name' \in IF store[Name] \in GapNames THEN {store[Name]}
                            ELSE IF store[Name] \in Strings \cup {Absent} THEN {name}
                            ELSE {name, store[Name]}
    /\ UNCHANGED <<store, acked, due, boot, answer, settled, data>>
Announce ==
    /\ phase = "named" /\ phase' = "idle"
    /\ settled => data' \in IF name \in AdvNames THEN {Data(store[Flag], store[ID])}
                            ELSE IF name \in Strings THEN {data}
                            ELSE {data, Data(store[Flag], store[ID])}
    /\ UNCHANGED <<store, acked, due, boot, answer, settled, name>>

-----------------------------------------------------------------------------
\* The power fails, or the device resets: what is stored is kept, and a write
\* that is not through yet is not promised any more.
Restart ==
    /\ due' = {} /\ boot' = "loading" /\ lost' = FALSE /\ phase' = "idle" /\ answer' = <<>>
    /\ settled' = FALSE /\ name' = DefaultGapName /\ data' = [flag |-> "none", id |-> 0]
    /\ acked' = IF phase = "storing" THEN <<>> ELSE acked
    /\ UNCHANGED store

Step ==
    \/ StoreDefaults \/ FinishLoading \/ Keep
    \/ Answer \/ Answered \/ Accept \/ KeepFlag \/ Stored \/ Meddle \/ Spoil
    \/ Renew \/ SetName \/ Announce
    \/ UNCHANGED <<store, acked, due, boot, phase, answer, settled, air>>

\* A boot that has a write to keep finds the ID.
Finds == boot # "up" /\ DOMAIN acked # {} => lost' = lost

Next == (Step /\ Finds) \/ Restart

Spec == Init /\ [][Next]_vars
=============================================================================
