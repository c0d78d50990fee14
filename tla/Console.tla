------------------------------- MODULE Console -------------------------------
(***************************************************************************)
(* The NVS commands of the console (main/consoleCommands.c) and what they  *)
(* do to the namespaces of NVS (main/nvsFunctions.c), while the host task  *)
(* stores the variable table (module Provisioning) in one of them. The     *)
(* print commands ask NVS for the size of a value first and for the value  *)
(* later; printNvs all walks through the entries of a namespace, where a   *)
(* value that is stored anew moves to the end.                             *)
(***************************************************************************)
EXTENDS Naturals

CONSTANTS
    Namespaces,  \* names of namespaces
    Table,       \* "storage", where the variable table is
    Refused,     \* names that nvs_open refuses, too long or empty
    Keys,        \* the keys, each of type string
    Values,      \* the strings in use
    Size,        \* the bytes of each
    Null,        \* "(null)"
    Absent,      \* a key that is not there
    Contents,    \* what NVS may hold at first
    Failures,    \* malloc may fail
    MaxWrites    \* bound on the values the host task stores

ASSUME ConsoleAssumption ==
    /\ Table \in Namespaces /\ Refused \cap Namespaces = {} /\ Keys # {}
    /\ Size \in [Values -> Nat \ {0}] /\ Absent \notin Values /\ Null \notin Values
    /\ Contents \subseteq [Namespaces -> [Keys -> Values \cup {Absent}]]
    /\ Failures \in BOOLEAN /\ MaxWrites \in Nat

VARIABLES
    nvs,     \* the keys of each namespace
    cmd,     \* the print command under way
    todo,    \* the keys whose entries lie ahead of its iterator
    shown,   \* what it has printed
    leaked,  \* namespaces with a handle that nobody will close
    writes,  \* values stored by the host task so far
    up,      \* the device has not just been reset
    held     \* history: the values of each key since the command was entered

vars == <<nvs, cmd, todo, shown, leaked, writes, up, held>>

Present(n) == {k \in Keys : nvs[n][k] # Absent}
Prompt == [pc |-> "prompt", ns |-> Table, all |-> FALSE, key |-> CHOOSE k \in Keys : TRUE,
           size |-> 0, buf |-> FALSE]
Ready == up /\ cmd.pc = "prompt"
Ends == cmd' = Prompt /\ todo' = {}

-----------------------------------------------------------------------------
(* The commands that end at once.                                          *)

\* The commands refuse too few arguments, but for delNvs and do, which compare
\* argc with 0 or not at all: strcmp and atoi are given a null pointer. That
\* resets the device, and so does do 2, which is meant to.
CommandResets ==
    /\ Ready
    /\ up' = FALSE
    /\ UNCHANGED <<nvs, cmd, todo, shown, leaked, writes, held>>

\* setNvsVariableString goes on with a handle that nobody has set when
\* nvs_open fails: it may be any handle that is open, left so by a print
\* command or in use by the host task, or none.
SetNvs(n, k, v) ==
    /\ Ready
    /\ IF n \in Namespaces
       THEN nvs' = [nvs EXCEPT ![n][k] = v]
       ELSE nvs' \in {nvs} \cup {[nvs EXCEPT ![o][k] = v] : o \in leaked \cup {Table}}
    /\ UNCHANGED <<cmd, todo, shown, leaked, writes, up, held>>

\* deleteNvsVariable
DelNvs(n, k) ==
    /\ Ready /\ n \in Namespaces
    /\ nvs' = [nvs EXCEPT ![n][k] = Absent]
    /\ UNCHANGED <<cmd, todo, shown, leaked, writes, up, held>>

\* eraseNvsData does not look at its parameter. NVS closes every handle.
DelNvsAll(n) ==
    /\ Ready
    /\ nvs' = [o \in Namespaces |-> [k \in Keys |-> Absent]]
    /\ leaked' = {}
    /\ UNCHANGED <<cmd, todo, shown, writes, up, held>>

-----------------------------------------------------------------------------
(* The print commands.                                                     *)

\* nvs_open, by either function; the handle is never closed. printNvsData ends
\* when there is no memory for its iterator.
PrintNvs(n, k, all) ==
    /\ Ready /\ n \in Namespaces
    /\ \/ /\ cmd' = [Prompt EXCEPT !.pc = IF all THEN "next" ELSE "size", !.ns = n, !.all = all, !.key = k]
          /\ todo' = IF all THEN Present(n) ELSE {}
       \/ all /\ Failures /\ Ends
    /\ shown' = {}
    /\ leaked' = leaked \cup {n}
    /\ held' = [j \in Keys |-> {nvs[n][j]}]
    /\ UNCHANGED <<nvs, writes, up>>

NextEntryStays ==
    /\ cmd.pc = "next"
    /\ \/ \E k \in todo :
            /\ cmd' = [cmd EXCEPT !.pc = "size", !.key = k, !.size = 0, !.buf = FALSE]
            /\ UNCHANGED todo
       \/ todo = {} /\ Ends
    /\ UNCHANGED <<nvs, shown, leaked, writes, up, held>>

\* The next entry of the namespace.
NextEntry ==
    /\ cmd.pc = "next"
    /\ \/ \E k \in todo :
            /\ cmd' = [cmd EXCEPT !.pc = "size", !.key = k, !.size = 0, !.buf = FALSE]
            /\ todo' = todo \ {k}
       \/ todo = {} /\ Ends
    /\ UNCHANGED <<nvs, shown, leaked, writes, up, held>>

\* The first nvs_get_str, and malloc. printNvsVariable gives up when one of
\* them fails; printNvsData goes on without a buffer.
GetSize ==
    /\ cmd.pc = "size"
    /\ LET v == nvs[cmd.ns][cmd.key]
           Go(n, b) == cmd' = [cmd EXCEPT !.pc = "get", !.size = n, !.buf = b]
                       /\ UNCHANGED todo
       IN \/ v # Absent /\ Go(Size[v], TRUE)
          \/ (v = Absent \/ Failures) /\ IF cmd.all THEN Go(0, FALSE) ELSE Ends
    /\ UNCHANGED <<nvs, shown, leaked, writes, up, held>>

\* What the second nvs_get_str finds, if it can be had: a value that has grown
\* does not fit, and without a buffer there is nothing to print.
Fits == nvs[cmd.ns][cmd.key] # Absent /\ Size[nvs[cmd.ns][cmd.key]] <= cmd.size

GetValueUnchecked ==
    /\ cmd.pc = "get"
    /\ shown' = shown \cup {<<cmd.key, IF Fits /\ cmd.buf THEN nvs[cmd.ns][cmd.key] ELSE Absent>>}
    /\ IF cmd.all THEN cmd' = [cmd EXCEPT !.pc = "next"] /\ UNCHANGED todo ELSE Ends
    /\ UNCHANGED <<nvs, leaked, writes, up, held>>

GetValueGivesUp ==
    /\ cmd.pc = "get"
    /\ IF Fits /\ cmd.buf
       THEN shown' = shown \cup {<<cmd.key, nvs[cmd.ns][cmd.key]>>} ELSE UNCHANGED shown
    /\ IF cmd.all THEN cmd' = [cmd EXCEPT !.pc = "next"] ELSE cmd' = Prompt
    /\ todo' = IF cmd.all /\ Fits THEN todo ELSE {}
    /\ UNCHANGED <<nvs, leaked, writes, up, held>>

\* printNvsVariable prints an error in place of a value that it cannot get;
\* printNvsData prints "(null)", and goes on with the next entry.
GetValue ==
    /\ cmd.pc = "get"
    /\ shown' = CASE Fits /\ cmd.buf -> shown \cup {<<cmd.key, nvs[cmd.ns][cmd.key]>>}
                  [] ~(Fits /\ cmd.buf) /\ cmd.all -> shown \cup {<<cmd.key, Null>>}
                  [] OTHER -> shown
    /\ IF cmd.all THEN cmd' = [cmd EXCEPT !.pc = "next"] /\ UNCHANGED todo ELSE Ends
    /\ UNCHANGED <<nvs, leaked, writes, up, held>>

-----------------------------------------------------------------------------
\* writeVariablesToNvs in the host task stores a value, which becomes the last
\* entry of the namespace. To store what is there already changes nothing.
HostStores(k, v) ==
    /\ up /\ nvs[Table][k] # v
    /\ writes < MaxWrites /\ writes' = writes + 1
    /\ nvs' = [nvs EXCEPT ![Table][k] = v]
    /\ IF cmd.pc # "prompt" /\ cmd.ns = Table
       THEN /\ todo' = IF cmd.all THEN todo \cup {k} ELSE todo
            /\ held' = [held EXCEPT ![k] = @ \cup {v}]
       ELSE UNCHANGED <<todo, held>>
    /\ UNCHANGED <<cmd, shown, leaked, up>>

\* The device boots again.
Reboot ==
    /\ ~up /\ up' = TRUE
    /\ leaked' = {}
    /\ UNCHANGED <<nvs, cmd, todo, shown, writes, held>>

Init ==
    /\ nvs \in Contents
    /\ cmd = Prompt /\ todo = {} /\ shown = {} /\ leaked = {}
    /\ writes = 0 /\ up = TRUE /\ held = [k \in Keys |-> {}]

Enter ==
    \/ CommandResets
    \/ \E n \in Namespaces \cup Refused, k \in Keys :
        \/ \E v \in Values : SetNvs(n, k, v)
        \/ DelNvs(n, k)
        \/ DelNvsAll(n)
        \/ \E all \in BOOLEAN : PrintNvs(n, k, all)

Showing == NextEntry \/ GetSize \/ GetValue

Next ==
    \/ Enter \/ Showing \/ Reboot
    \/ \E k \in Keys, v \in Values : HostStores(k, v)

Spec == Init /\ [][Next]_vars

\* The scheduler runs the console task.
FairSpec == Spec /\ WF_vars(Showing)

-----------------------------------------------------------------------------
\* The variables have their types.
TypeOK ==
    /\ nvs \in [Namespaces -> [Keys -> Values \cup {Absent}]]
    /\ cmd \in [pc : {"prompt", "next", "size", "get"}, ns : Namespaces, all : BOOLEAN,
                key : Keys, size : Nat, buf : BOOLEAN]
    /\ todo \subseteq Keys /\ shown \subseteq Keys \X (Values \cup {Null})
    /\ leaked \subseteq Namespaces /\ writes \in 0 .. MaxWrites /\ up \in BOOLEAN
    /\ held \in [Keys -> SUBSET (Values \cup {Absent})]

\* Whatever the host task stores between the two reads, a print command shows
\* only values that the key has had since the command was entered
\* (main/nvsFunctions.c:43-58, 75-92).
ShownWasStored == \A s \in shown : s[2] # Null => s[2] \in held[s[1]]

Printed(k, v) == <<k, v>> \in shown \/ (Failures /\ <<k, Null>> \in shown)

\* printNvs all, once it has its iterator, shows each key that did not change
\* while it ran, though others did, or "(null)" if malloc has failed
\* (main/nvsFunctions.c:38-62).
UnchangedShown ==
    [][cmd.pc = "next" /\ cmd'.pc = "prompt" =>
         \A k \in Keys, v \in Values : held[k] = {v} => Printed(k, v)]_vars

\* Once the host task has nothing to store, every command comes to its end
\* (main/nvsFunctions.c:38-62).
PromptReturns == cmd.pc # "prompt" ~> cmd.pc = "prompt"

-----------------------------------------------------------------------------
\* "delNvs <namespace> <variable or 'all'>" (main/consoleRegister.c:33): all
\* is all of the namespace that is named, so that no command, and no write of
\* the host task, changes more than one.
OneNamespaceAtATime ==
    [][\E n \in Namespaces : \A o \in Namespaces \ {n} : nvs'[o] = nvs[o]]_vars
=============================================================================
