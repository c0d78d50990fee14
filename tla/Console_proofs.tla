--------------------------- MODULE Console_proofs ---------------------------
(* Proofs about Console, for any namespaces, keys and values, and any number *)
(* of values that the host task stores.                                      *)
EXTENDS Console, TLAPS

CmdType == [pc : {"prompt", "next", "size", "get"}, ns : Namespaces, all : BOOLEAN,
            key : Keys, size : Nat, buf : BOOLEAN]
Printing == cmd.pc # "prompt"

\* While a command prints, held keeps track of what NVS holds.
HeldTracks == Printing => \A k \in Keys : nvs[cmd.ns][k] \in held[k]

\* A key that has not changed is still ahead of the iterator, is being read, or
\* has been shown.
Accounted(k, v) ==
    \/ k \in todo
    \/ Printed(k, v)
    \/ k = cmd.key /\ cmd.pc = "size"
    \/ k = cmd.key /\ cmd.pc = "get" /\ (Failures \/ (cmd.buf /\ cmd.size = Size[v]))
NoneSkipped ==
    Printing /\ cmd.all =>
        \A k \in Keys, v \in Values : held[k] = {v} => Accounted(k, v)

IInv == TypeOK /\ ShownWasStored /\ HeldTracks /\ NoneSkipped /\ (cmd.pc = "next" => cmd.all)

-----------------------------------------------------------------------------
\* The command of a console that waits, given that there is a key.
LEMMA PromptType == ASSUME NEW k \in Keys PROVE Prompt \in CmdType /\ Prompt.pc = "prompt"
BY ConsoleAssumption DEF Prompt, CmdType

LEMMA SizeType == \A v \in Values : Size[v] \in Nat
BY ConsoleAssumption

\* A step of the commands that leaves the print command alone keeps the
\* invariant.
LEMMA QuietIInv ==
    ASSUME IInv, ~Printing, UNCHANGED <<cmd, todo, shown, held, writes>>,
           nvs' \in [Namespaces -> [Keys -> Values \cup {Absent}]],
           leaked' \subseteq Namespaces, up' \in BOOLEAN
    PROVE  IInv'
BY SMTT(30) DEF IInv, TypeOK, ShownWasStored, HeldTracks, NoneSkipped, Printing

LEMMA EnterIInv == ASSUME IInv, Enter PROVE IInv'
<1>1. ~Printing
  BY DEF Enter, CommandResets, SetNvs, DelNvs, DelNvsAll, PrintNvs, Ready, Printing
<1>2. CASE CommandResets
  BY <1>1, <1>2, QuietIInv DEF CommandResets, IInv, TypeOK
<1>3. ASSUME NEW n \in Namespaces \cup Refused, NEW k \in Keys, NEW v \in Values, SetNvs(n, k, v)
      PROVE  IInv'
  <2>1. \A o \in Namespaces : [nvs EXCEPT ![o][k] = v] \in [Namespaces -> [Keys -> Values \cup {Absent}]]
    BY DEF IInv, TypeOK
  <2>2. nvs' \in [Namespaces -> [Keys -> Values \cup {Absent}]]
    BY <1>3, <2>1, ConsoleAssumption, SMTT(90) DEF SetNvs, IInv, TypeOK
  <2>3. UNCHANGED <<cmd, todo, shown, held, writes, leaked, up>>
    BY <1>3 DEF SetNvs
  <2> QED  BY <1>1, <2>2, <2>3, QuietIInv DEF IInv, TypeOK
<1>4. ASSUME NEW n \in Namespaces \cup Refused, NEW k \in Keys, DelNvs(n, k)
      PROVE  IInv'
  <2>1. nvs' \in [Namespaces -> [Keys -> Values \cup {Absent}]]
    BY <1>4 DEF DelNvs, IInv, TypeOK
  <2> QED  BY <1>1, <1>4, <2>1, QuietIInv DEF DelNvs, IInv, TypeOK
<1>5. ASSUME NEW n \in Namespaces \cup Refused, DelNvsAll(n)
      PROVE  IInv'
  <2>1. nvs' \in [Namespaces -> [Keys -> Values \cup {Absent}]]
    BY <1>5 DEF DelNvsAll
  <2> QED  BY <1>1, <1>5, <2>1, QuietIInv DEF DelNvsAll, IInv, TypeOK
<1>6. ASSUME NEW n \in Namespaces \cup Refused, NEW k \in Keys, NEW all \in BOOLEAN,
             PrintNvs(n, k, all)
      PROVE  IInv'
  <2> DEFINE c == [Prompt EXCEPT !.pc = IF all THEN "next" ELSE "size", !.ns = n, !.all = all, !.key = k]
             ahead == IF all THEN Present(n) ELSE {}
  <2>1. /\ n \in Namespaces /\ UNCHANGED <<nvs, writes, up>>
        /\ held' = [j \in Keys |-> {nvs[n][j]}] /\ shown' = {} /\ leaked' = leaked \cup {n}
        /\ (cmd' = c /\ todo' = ahead) \/ Ends
    BY <1>6 DEF PrintNvs
  <2>2. /\ c \in CmdType /\ c.ns = n /\ c.all = all /\ c.key = k
        /\ c.pc = IF all THEN "next" ELSE "size"
    BY <2>1, PromptType DEF CmdType
  <2> HIDE DEF c
  <2>3. \A j \in Keys : nvs[n][j] \in Values \cup {Absent}
    BY <2>1 DEF IInv, TypeOK
  <2>4. held' \in [Keys -> SUBSET (Values \cup {Absent})] /\ ahead \subseteq Keys
    BY <2>1, <2>3 DEF Present
  <2>5. ShownWasStored'
    BY <2>1 DEF ShownWasStored
  <2>6. CASE Ends
    <3>1. cmd' \in CmdType /\ cmd'.pc = "prompt" /\ todo' = {}
      BY <2>6, PromptType DEF Ends
    <3>2. TypeOK'
      BY <2>1, <2>4, <3>1 DEF IInv, TypeOK, CmdType
    <3> QED  BY <2>5, <3>1, <3>2 DEF IInv, HeldTracks, NoneSkipped, Printing
  <2>7. CASE cmd' = c /\ todo' = ahead
    <3>1. TypeOK'
      BY <2>1, <2>2, <2>4, <2>7 DEF IInv, TypeOK, CmdType
    <3>2. HeldTracks'
      BY <2>1, <2>2, <2>7 DEF HeldTracks
    <3>3. NoneSkipped'
      <4> SUFFICES ASSUME all, NEW j \in Keys, NEW v \in Values, held'[j] = {v} PROVE j \in todo'
        BY <2>2, <2>7 DEF NoneSkipped, Accounted
      <4>1. nvs[n][j] = v
        BY <2>1
      <4> QED  BY <2>7, <4>1, ConsoleAssumption DEF Present
    <3> QED  BY <2>2, <2>5, <2>7, <3>1, <3>2, <3>3 DEF IInv
  <2> QED  BY <2>1, <2>6, <2>7
<1> QED  BY <1>2, <1>3, <1>4, <1>5, <1>6 DEF Enter

LEMMA ShowingIInv ==
    ASSUME IInv, Showing
    PROVE  /\ IInv'
           /\ cmd.pc = "next" /\ cmd'.pc = "prompt" =>
                \A k \in Keys, v \in Values : held[k] = {v} => Printed(k, v)
<1>0. /\ UNCHANGED <<nvs, leaked, writes, up, held>> /\ cmd \in CmdType
      /\ cmd.key \in Keys /\ Prompt \in CmdType /\ Prompt.pc = "prompt"
      /\ \A k \in Keys : nvs[cmd.ns][k] \in Values \cup {Absent}
  <2>1. UNCHANGED <<nvs, leaked, writes, up, held>>
    BY DEF Showing, NextEntry, GetSize, GetValue
  <2>2. cmd \in CmdType /\ nvs \in [Namespaces -> [Keys -> Values \cup {Absent}]]
    BY DEF IInv, TypeOK, CmdType
  <2>3. cmd.key \in Keys /\ cmd.ns \in Namespaces
    BY <2>2, SMTT(30) DEF CmdType
  <2> QED  BY <2>1, <2>2, <2>3, PromptType
<1>1. CASE NextEntry
  <2>1. ASSUME NEW k \in todo, cmd' = [cmd EXCEPT !.pc = "size", !.key = k, !.size = 0, !.buf = FALSE],
               todo' = todo \ {k}, UNCHANGED shown
        PROVE  IInv' /\ cmd'.pc = "size"
    <3>1. k \in Keys /\ cmd' \in CmdType
      BY <1>0, <2>1 DEF IInv, TypeOK, CmdType
    <3>2. cmd.pc = "next" /\ cmd'.pc = "size" /\ cmd'.key = k /\ cmd'.ns = cmd.ns /\ cmd'.all = cmd.all
      BY <1>0, <1>1, <2>1 DEF CmdType, NextEntry
    <3>3. TypeOK' /\ ShownWasStored' /\ HeldTracks'
      BY <1>0, <2>1, <3>1, <3>2 DEF IInv, TypeOK, CmdType, ShownWasStored, HeldTracks, Printing
    <3>4. NoneSkipped'
      BY <1>0, <2>1, <3>2 DEF IInv, NoneSkipped, Accounted, Printed, Printing
    <3> QED  BY <3>2, <3>3, <3>4 DEF IInv
  <2>2. ASSUME todo = {}, Ends, UNCHANGED shown, cmd.pc = "next"
        PROVE  /\ IInv'
               /\ \A k \in Keys, v \in Values : held[k] = {v} => Printed(k, v)
    <3>1. IInv'
      BY <1>0, <2>2, SMTT(90) DEF Ends, IInv, TypeOK, CmdType, ShownWasStored, HeldTracks, NoneSkipped, Printing
    <3> QED  BY <2>2, <3>1 DEF IInv, NoneSkipped, Accounted, Printed, Printing
  <2> QED  BY <1>1, <2>1, <2>2 DEF NextEntry
<1>2. CASE GetSize
  <2>1. cmd.pc = "size" /\ UNCHANGED shown
    BY <1>2 DEF GetSize
  <2>2. CASE Ends /\ ~cmd.all
    BY <1>0, <2>1, <2>2 DEF Ends, IInv, TypeOK, CmdType, ShownWasStored, HeldTracks, NoneSkipped, Printing
  <2>3. ASSUME NEW n \in Nat, NEW b \in BOOLEAN,
               cmd' = [cmd EXCEPT !.pc = "get", !.size = n, !.buf = b], UNCHANGED todo,
               \/ nvs[cmd.ns][cmd.key] # Absent /\ n = Size[nvs[cmd.ns][cmd.key]] /\ b
               \/ nvs[cmd.ns][cmd.key] = Absent \/ Failures
        PROVE  IInv'
    <3>1. /\ cmd' \in CmdType /\ cmd'.pc = "get" /\ cmd'.key = cmd.key /\ cmd'.ns = cmd.ns
          /\ cmd'.all = cmd.all /\ cmd'.size = n /\ cmd'.buf = b
      BY <1>0, <2>3 DEF CmdType
    <3>2. TypeOK' /\ ShownWasStored' /\ HeldTracks'
      BY <1>0, <2>1, <2>3, <3>1 DEF IInv, TypeOK, CmdType, ShownWasStored, HeldTracks, Printing
    <3>3. NoneSkipped'
      <4> SUFFICES ASSUME cmd.all, NEW k \in Keys, NEW v \in Values, held[k] = {v}
                   PROVE  Accounted(k, v)'
        BY <1>0, <3>1 DEF NoneSkipped
      <4>1. Accounted(k, v) /\ nvs[cmd.ns][k] = v
        BY <2>1 DEF IInv, NoneSkipped, HeldTracks, Printing
      <4> QED  BY <1>0, <2>1, <2>3, <3>1, <4>1, ConsoleAssumption DEF Accounted, Printed
    <3> QED  BY <3>1, <3>2, <3>3 DEF IInv
  <2> QED  BY <1>0, <1>2, <2>1, <2>2, <2>3, SizeType DEF GetSize
<1>3. CASE GetValue
  <2> DEFINE x == nvs[cmd.ns][cmd.key]
  <2>1. cmd.pc = "get" /\ x \in held[cmd.key]
    BY <1>0, <1>3 DEF GetValue, IInv, HeldTracks, Printing
  <2>2. \/ Fits /\ cmd.buf /\ shown' = shown \cup {<<cmd.key, x>>}
        \/ ~(Fits /\ cmd.buf) /\ shown' = shown \cup {<<cmd.key, Null>>}
        \/ ~(Fits /\ cmd.buf) /\ shown' = shown
    BY <1>3 DEF GetValue
  <2>3. Fits => x \in Values
    BY <1>0 DEF Fits
  <2>4. shown' \subseteq Keys \X (Values \cup {Null}) /\ ShownWasStored'
    BY <1>0, <2>1, <2>2, <2>3 DEF IInv, TypeOK, ShownWasStored
  <2>5. CASE Ends
    BY <1>0, <2>1, <2>4, <2>5 DEF Ends, IInv, TypeOK, CmdType, HeldTracks, NoneSkipped, Printing
  <2>6. CASE cmd' = [cmd EXCEPT !.pc = "next"] /\ UNCHANGED todo /\ cmd.all
    <3>1. /\ cmd' \in CmdType /\ cmd'.pc = "next" /\ cmd'.key = cmd.key /\ cmd'.ns = cmd.ns
          /\ cmd'.all = cmd.all
      BY <1>0, <2>6 DEF CmdType
    <3>2. TypeOK' /\ HeldTracks'
      BY <1>0, <2>1, <2>4, <2>6, <3>1 DEF IInv, TypeOK, CmdType, HeldTracks, Printing
    <3>3. NoneSkipped'
      <4> SUFFICES ASSUME NEW k \in Keys, NEW v \in Values, held[k] = {v}
                   PROVE  k \in todo \/ Printed(k, v)'
        BY <1>0, <2>6 DEF NoneSkipped, Accounted
      <4>1. Accounted(k, v)
        BY <2>1, <2>6 DEF IInv, NoneSkipped, Printing
      <4>2. CASE k = cmd.key /\ cmd.buf /\ cmd.size = Size[v]
        <5>1. x = v
          BY <2>1, <4>2
        <5>2. Fits
          BY <4>2, <5>1, ConsoleAssumption, SizeType DEF Fits
        <5> QED  BY <2>2, <4>2, <5>1, <5>2 DEF Printed
      <4>3. CASE k = cmd.key /\ Failures
        <5>1. x = v
          BY <2>1, <4>3
        <5> QED  BY <1>3, <2>1, <2>2, <2>6, <4>3, <5>1 DEF GetValue, Printed
      <4> QED  BY <2>1, <2>2, <4>1, <4>2, <4>3 DEF Accounted, Printed
    <3> QED  BY <2>4, <2>6, <3>1, <3>2, <3>3 DEF IInv
  <2> QED  BY <1>3, <2>1, <2>5, <2>6 DEF GetValue
<1> QED  BY <1>1, <1>2, <1>3 DEF Showing

LEMMA HostStoresIInv ==
    ASSUME IInv, NEW k \in Keys, NEW v \in Values, HostStores(k, v)
    PROVE  IInv'
<1>1. /\ nvs' = [nvs EXCEPT ![Table][k] = v] /\ writes' \in 0 .. MaxWrites
      /\ UNCHANGED <<cmd, shown, leaked, up>> /\ cmd.ns \in Namespaces /\ Table \in Namespaces
  BY ConsoleAssumption DEF HostStores, IInv, TypeOK
<1>2. nvs' \in [Namespaces -> [Keys -> Values \cup {Absent}]]
  BY <1>1 DEF IInv, TypeOK
<1>3. CASE Printing /\ cmd.ns = Table
  <2>1. held' = [held EXCEPT ![k] = @ \cup {v}] /\ todo' = IF cmd.all THEN todo \cup {k} ELSE todo
    BY <1>3 DEF HostStores, Printing
  <2>2. held' \in [Keys -> SUBSET (Values \cup {Absent})] /\ \A j \in Keys : held[j] \subseteq held'[j]
    BY <2>1 DEF IInv, TypeOK
  <2>3. TypeOK'
    BY <1>1, <1>2, <2>1, <2>2 DEF IInv, TypeOK
  <2>4. ShownWasStored'
    BY <1>1, <2>2 DEF IInv, TypeOK, ShownWasStored
  <2>5. HeldTracks'
    BY <1>1, <1>3, <2>1 DEF IInv, TypeOK, HeldTracks, Printing
  <2>6. NoneSkipped'
    BY <1>1, <1>3, <2>1 DEF IInv, TypeOK, NoneSkipped, Accounted, Printed, Printing
  <2> QED  BY <1>1, <2>3, <2>4, <2>5, <2>6 DEF IInv
<1>4. CASE ~(Printing /\ cmd.ns = Table)
  <2>1. UNCHANGED <<todo, held>>
    BY <1>4 DEF HostStores, Printing
  <2>2. Printing => nvs'[cmd.ns] = nvs[cmd.ns]
    BY <1>1, <1>4 DEF IInv, TypeOK
  <2> QED  BY <1>1, <1>2, <2>1, <2>2 DEF IInv, TypeOK, ShownWasStored, HeldTracks, NoneSkipped, Accounted, Printed, Printing
<1> QED  BY <1>3, <1>4

LEMMA InitIInv == ASSUME Init PROVE IInv
<1>1. PICK k \in Keys : TRUE
  BY ConsoleAssumption
<1>2. Prompt \in CmdType /\ Prompt.pc = "prompt"
  BY <1>1, PromptType
<1>3. TypeOK
  BY <1>2, ConsoleAssumption DEF Init, TypeOK, CmdType
<1> QED  BY <1>2, <1>3 DEF Init, IInv, ShownWasStored, HeldTracks, NoneSkipped, Printing

LEMMA NextIInv == ASSUME IInv, [Next]_vars PROVE IInv'
<1>1. CASE Reboot
  BY <1>1 DEF Reboot, IInv, TypeOK, ShownWasStored, HeldTracks, NoneSkipped, Accounted, Printed, Printing
<1>2. CASE UNCHANGED vars
  BY <1>2 DEF vars, IInv, TypeOK, ShownWasStored, HeldTracks, NoneSkipped, Accounted, Printed, Printing
<1> QED  BY <1>1, <1>2, EnterIInv, ShowingIInv, HostStoresIInv DEF Next

\* The strengthened invariant holds of every reachable state.
THEOREM Invariance == Spec => []IInv
<1>1. Init => IInv  BY InitIInv
<1>2. IInv /\ [Next]_vars => IInv'  BY NextIInv
<1> QED  BY <1>1, <1>2, PTL DEF Spec

\* The variables have their types.
THEOREM TypeCorrect == Spec => []TypeOK
<1>1. IInv => TypeOK  BY DEF IInv
<1> QED  BY <1>1, Invariance, PTL

\* A print command shows only values that the key has had since the command
\* was entered, whatever the host task stores between the two reads
\* (main/nvsFunctions.c:43-58, 75-92).
THEOREM AlwaysStored == Spec => []ShownWasStored
<1>1. IInv => ShownWasStored  BY DEF IInv
<1> QED  BY <1>1, Invariance, PTL

\* printNvs all shows each key that did not change while it ran, or "(null)" if
\* malloc has failed (main/nvsFunctions.c:38-62).
THEOREM UnchangedAlwaysShown == Spec => UnchangedShown
<1> DEFINE Complete ==
        \A k \in Keys, v \in Values : held[k] = {v} => Printed(k, v)
           Leaves == cmd.pc = "next" /\ cmd'.pc = "prompt"
<1>1. ASSUME IInv, [Next]_vars PROVE [Leaves => Complete]_vars
  <2>1. CASE Showing
    BY <1>1, <2>1, ShowingIInv, SMTT(30)
  <2>2. CASE Enter
    BY <2>2 DEF Enter, CommandResets, SetNvs, DelNvs, DelNvsAll, PrintNvs, Ready
  <2>3. CASE Reboot \/ \E k \in Keys, v \in Values : HostStores(k, v)
    BY <2>3 DEF Reboot, HostStores
  <2> QED  BY <1>1, <2>1, <2>2, <2>3 DEF Next
<1>2. Spec => [][Leaves => Complete]_vars
  BY <1>1, Invariance, PTL DEF Spec
<1> QED  BY <1>2 DEF UnchangedShown
=============================================================================
