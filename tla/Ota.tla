-------------------------------- MODULE Ota ---------------------------------
(***************************************************************************)
(* The update over the air: the console command (main/consoleCommands.c),  *)
(* the task it creates (main/ota.c) and the app partitions it writes       *)
(* (partitions.csv). esp_https_ota, the flash and the bootloader belong to *)
(* ESP-IDF; they are modelled as far as ota_task relies on them. Flash is  *)
(* counted in blocks, the unit in which a download is erased and written.  *)
(***************************************************************************)
EXTENDS Naturals

CONSTANTS
    Tasks,         \* identities of OTA tasks
    Urls,          \* the URLs in use
    Images,        \* the app images
    NoImage,       \* what a URL serves that is no app image
    Serves,        \* what each URL serves
    Blocks,        \* the size of each image
    Room,          \* the size of each app partition
    FactoryImage,  \* the image the device left the factory with
    Erased,        \* a block without a program
    NoLine,        \* a console line that is not an ota command
    OtherCommands, \* the operator enters other commands
    Failures,      \* downloads and flash writes may fail
    MaxResets      \* bound on power cycles

Slots == {"factory", "ota_0", "ota_1"}
OtaSlots == Slots \ {"factory"}

ASSUME ImageAssumption ==
    /\ Serves \in [Urls -> Images \cup {NoImage}] /\ NoImage \notin Images
    /\ Blocks \in [Images -> Nat \ {0}] /\ Erased \notin Images
    /\ Room \in [Slots -> Nat]
    /\ FactoryImage \in Images /\ Blocks[FactoryImage] <= Room["factory"]
    /\ NoLine \notin Urls
ASSUME BoundAssumption ==
    /\ OtherCommands \in BOOLEAN /\ Failures \in BOOLEAN
    /\ MaxResets \in Nat

VARIABLES
    flash,      \* the blocks of each app partition
    otadata,    \* the partition selected to boot, or "none"
    running,    \* the partition the program runs from
    line,       \* the console's command buffer, where argv points
    task,       \* the OTA tasks
    resets      \* power cycles so far

vars == <<flash, otadata, running, line, task, resets>>

-----------------------------------------------------------------------------
\* A partition holds an image when all its blocks are there, which is what
\* the digest at its end tells.
Holds(s, i) == Blocks[i] <= Room[s] /\ \A b \in 1 .. Blocks[i] : flash[s][b] = i
Bootable(s) == \E i \in Images : Holds(s, i)

\* The bootloader tries the selected partition, the ones before it down to
\* factory, then the ones after it.
BootOrder(selected) ==
    CASE selected = "ota_0" -> <<"ota_0", "factory", "ota_1">>
      [] selected = "ota_1" -> <<"ota_1", "ota_0", "factory">>
      [] OTHER -> <<"factory", "ota_0", "ota_1">>

Boots(s) ==
    \E n \in 1 .. 3 :
        /\ s = BootOrder(otadata)[n] /\ Bootable(s)
        /\ \A m \in 1 .. (n - 1) : ~Bootable(BootOrder(otadata)[m])

\* The partition to update: the OTA partition after the running one.
NextSlotFirst == "ota_0"
NextSlot == IF running = "ota_0" THEN "ota_1" ELSE "ota_0"

NoTask == [pc |-> "none", asked |-> NoLine, url |-> NoLine, slot |-> "none", at |-> 0]
\* A line that is no URL leads nowhere.
Offer(u) == IF u \in Urls THEN Serves[u] ELSE NoImage
Image(t) == Offer(task[t].url)
Goto(t, pc) == task' = [task EXCEPT ![t].pc = pc]

\* A reset ends every task; what runs next is up to the bootloader.
Reset ==
    /\ UNCHANGED otadata
    /\ running' \in IF \E s \in Slots : Bootable(s)' THEN {s \in Slots : Boots(s)'} ELSE {"none"}
    /\ line' = NoLine
    /\ task' = [t \in Tasks |-> NoTask]

-----------------------------------------------------------------------------
(* The console.                                                            *)

OtaCommandWrongArg(t, u) ==
    /\ running # "none" /\ task[t].pc = "none"
    /\ line' = NoLine
    /\ task' = [task EXCEPT ![t] = [NoTask EXCEPT !.pc = "start", !.asked = u]]
    /\ UNCHANGED <<flash, otadata, running, resets>>

\* otaCB hands the task a pointer into the command buffer.
OtaCommand(t, u) ==
    /\ running # "none" /\ task[t].pc = "none"
    /\ line' = u
    /\ task' = [task EXCEPT ![t] = [NoTask EXCEPT !.pc = "start", !.asked = u]]
    /\ UNCHANGED <<flash, otadata, running, resets>>

\* Any other command overwrites the buffer.
OtherCommand ==
    /\ OtherCommands /\ line # NoLine
    /\ line' = NoLine
    /\ UNCHANGED <<flash, otadata, running, task, resets>>

-----------------------------------------------------------------------------
(* ota_task.                                                               *)

\* esp_https_ota reads the URL, connects, and picks the partition.
Begin(t) ==
    /\ task[t].pc = "start"
    /\ \/ /\ Offer(line) # NoImage
          /\ task' = [task EXCEPT ![t].pc = "write", ![t].url = line,
                                  ![t].slot = NextSlot]
       \/ /\ Offer(line) = NoImage \/ Failures
          /\ Goto(t, "error")
    /\ UNCHANGED <<flash, otadata, running, line, resets>>

\* A write that went wrong leaves its block erased.
Writing(t) ==
    task[t].pc = "write" /\ task[t].at < Blocks[Image(t)] /\ task[t].at < Room[task[t].slot]
Torn(t) == [flash EXCEPT ![task[t].slot][task[t].at + 1] = Erased]

\* One block of the download; a partition that is full refuses it.
WriteBlock(t) ==
    /\ task[t].pc = "write" /\ task[t].at < Blocks[Image(t)]
    /\ \/ /\ Writing(t)
          /\ flash' = [flash EXCEPT ![task[t].slot][task[t].at + 1] = Image(t)]
          /\ task' = [task EXCEPT ![t].at = @ + 1]
       \/ /\ task[t].at >= Room[task[t].slot] \/ Failures
          /\ Goto(t, "error")
          /\ UNCHANGED flash
       \/ /\ Writing(t) /\ Failures
          /\ flash' = Torn(t)
          /\ Goto(t, "error")
    /\ UNCHANGED <<otadata, running, line, resets>>

\* esp_ota_end, and again esp_ota_set_boot_partition, read the image back.
Verify(t, pc, next) ==
    /\ task[t].pc = pc
    /\ pc = "write" => task[t].at = Blocks[Image(t)]
    /\ Goto(t, IF Bootable(task[t].slot) THEN next ELSE "error")
    /\ UNCHANGED <<flash, otadata, running, line, resets>>
EndImage(t) == Verify(t, "write", "select")
CheckImage(t) == Verify(t, "select", "commit")

CommitRunning(t) ==
    /\ task[t].pc = "commit"
    /\ otadata' = running
    /\ Goto(t, "ok")
    /\ UNCHANGED <<flash, running, line, resets>>

\* otadata has two sectors, so that the new entry replaces the old at once.
Commit(t) ==
    /\ task[t].pc = "commit"
    /\ otadata' = task[t].slot
    /\ Goto(t, "ok")
    /\ UNCHANGED <<flash, running, line, resets>>

\* ESP_OK: esp_restart. Anything else is printed, and the task ends.
Restart(t) ==
    /\ task[t].pc = "ok"
    /\ UNCHANGED <<flash, resets>>
    /\ Reset

PrintOnly(t) == task[t].pc = "error" /\ UNCHANGED vars
PrintError(t) ==
    /\ task[t].pc = "error"
    /\ task' = [task EXCEPT ![t] = NoTask]
    /\ UNCHANGED <<flash, otadata, running, line, resets>>

OtaTask(t) ==
    \/ Begin(t) \/ WriteBlock(t) \/ EndImage(t) \/ CheckImage(t) \/ Commit(t)
    \/ Restart(t) \/ PrintError(t)

-----------------------------------------------------------------------------
\* The power fails, maybe while a block is written.
PowerCycle ==
    /\ resets < MaxResets
    /\ resets' = resets + 1
    /\ \/ UNCHANGED flash
       \/ \E t \in Tasks : Writing(t) /\ flash' = Torn(t)
    /\ Reset

Init ==
    /\ flash = [s \in Slots |-> [b \in 1 .. Room[s] |->
                   IF s = "factory" /\ b <= Blocks[FactoryImage] THEN FactoryImage ELSE Erased]]
    /\ otadata = "none" /\ running = "factory"
    /\ line = NoLine /\ task = [t \in Tasks |-> NoTask]
    /\ resets = 0

Next ==
    \/ \E t \in Tasks : OtaTask(t) \/ \E u \in Urls : OtaCommand(t, u)
    \/ OtherCommand
    \/ PowerCycle

Spec == Init /\ [][Next]_vars

\* The scheduler runs the tasks, and a server that cannot be reached runs into
\* the timeout of the HTTP client. In the middle of a download esp_https_ota
\* reads again after a timeout, and nothing in its configuration ends that: it
\* goes on when the server does.
Downloading(t) == task[t].pc = "write" /\ task[t].at < Blocks[Image(t)]
FairSpec == Spec /\ \A t \in Tasks : WF_vars(~Downloading(t) /\ OtaTask(t))

\* The servers go on sending what they have begun to send.
ServedSpec == FairSpec /\ \A t \in Tasks : WF_vars(Downloading(t) /\ OtaTask(t))

-----------------------------------------------------------------------------
PCs == {"none", "start", "write", "select", "commit", "ok", "error"}

\* The variables have their types.
TypeOK ==
    /\ DOMAIN flash = Slots
    /\ \A s \in Slots : flash[s] \in [1 .. Room[s] -> Images \cup {Erased}]
    /\ otadata \in OtaSlots \cup {"none"} /\ running \in Slots \cup {"none"}
    /\ line \in Urls \cup {NoLine}
    /\ task \in [Tasks -> [pc : PCs, asked : Urls \cup {NoLine}, url : Urls \cup {NoLine},
                           slot : OtaSlots \cup {"none"}, at : Nat]]
    /\ resets \in 0 .. MaxResets

\* Whatever tasks run at once, whatever fails and whenever the power goes, the
\* device runs a whole image (main/ota.c:15-21).
RunningWhole == running # "none" /\ Bootable(running)

\* No step changes a block of the partition the program runs from, which is
\* mapped into its address space (main/ota.c:15).
RunningUntouched == [][flash'[running] = flash[running]]_vars

\* With one task at a time, an update is complete or leaves no trace, however
\* the blocks, the failures and the power cuts fall: ESP_OK means that the
\* image of the URL is the one the next reset runs (main/ota.c:15-20).
ImageIn(s) == CHOOSE i \in Images : Holds(s, i)
image == ImageIn(running)
chosen == ImageIn(CHOOSE s \in Slots : Boots(s))
outcome == IF \E t \in Tasks : task[t].pc = "ok"
           THEN Image(CHOOSE t \in Tasks : task[t].pc = "ok") ELSE NoImage
Whole == INSTANCE Update
UpdatesWhole == Whole!Spec

\* Every OTA task ends, in esp_restart or in vTaskDelete, unless its server
\* falls silent in the middle of the download (main/ota.c:8-21).
TaskEnds ==
    \A t \in Tasks : task[t].pc # "none" ~> (task[t].pc = "none" \/ []Downloading(t))

Installable(u) ==
    Serves[u] # NoImage /\ \A s \in OtaSlots : Blocks[Serves[u]] <= Room[s]

\* When nothing fails, the servers go on sending and one command is given at a
\* time, the image that the command names comes to run, unless the power fails
\* before
\* (main/consoleCommands.c:69-70, main/ota.c:5-17).
OtaTakesEffect ==
    \A u \in Urls, n \in 0 .. MaxResets : Installable(u) =>
        ((\E t \in Tasks : task[t].pc = "start" /\ task[t].asked = u) /\ resets = n)
            ~> (Holds(running, Serves[u]) \/ resets # n)

-----------------------------------------------------------------------------
\* app_main prints the command that installs myRemoteDeviceBin
\* (main/myRemoteDevice.c:175): there is room for every image that an ota
\* command downloads.
DownloadFits ==
    \A t \in Tasks : task[t].pc = "write" /\ task[t].at < Blocks[Image(t)] =>
        task[t].at < Room[task[t].slot]
=============================================================================
