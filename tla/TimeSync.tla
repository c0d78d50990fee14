------------------------------ MODULE TimeSync -------------------------------
(***************************************************************************)
(* The clock (main/time_sync.c): set from the time stamp in NVS on every   *)
(* boot, from SNTP when there is no stamp, and from SNTP once a day; each  *)
(* SNTP time is stored as the new stamp. A tick is far longer than a fetch *)
(* (20 s at most), so that none passes while one runs. The SNTP client,    *)
(* NVS, the timer and the hardware clock belong to ESP-IDF.                *)
(***************************************************************************)
EXTENDS Integers

CONSTANTS
    Start,      \* the time when the device is first switched on
    Period,     \* TIME_PERIOD
    RetryCount, \* retry_count
    Skew,       \* what an uninitialised tv_usec can add or take, rounded up
    Missing,    \* no stamp in NVS
    Never,      \* the timer is not armed
    Failures,   \* NVS calls and esp_timer_create may fail
    MaxTime,    \* bound on the time
    MaxResets   \* bound on resets

ASSUME TimeAssumption ==
    /\ Start \in Nat /\ Period \in Nat \ {0} /\ RetryCount \in Nat \ {0} /\ Skew \in Nat
    /\ Missing \notin Int /\ Never \notin Int
ASSUME TimeBoundAssumption ==
    /\ MaxTime \in Nat /\ Start <= MaxTime /\ MaxResets \in Nat /\ Failures \in BOOLEAN

VARIABLES
    real,    \* the time
    clock,   \* what time() returns; 0 at power-on
    stored,  \* the key "timestamp"
    sntp,    \* the SNTP client
    pc,      \* where the task that runs this code is
    retry,   \* the local variable of obtain_time
    err,     \* what the last fetch of this boot returned
    due,     \* when the timer fires
    resets   \* resets so far

vars == <<real, clock, stored, sntp, pc, retry, err, due, resets>>

-----------------------------------------------------------------------------
InitializeSntpStatic ==
    /\ sntp' = "asking" /\ UNCHANGED retry
    /\ pc' = "wait"

\* fetch_and_store_time_in_nvs begins.
InitializeSntp ==
    /\ sntp' = "asking" /\ retry' = 0
    /\ pc' = "wait"

\* The open or the read fails, there is no stamp, or the clock is set to it:
\* tv_usec of get_nvs_time is never set.
UpdateTimeFromNvs ==
    /\ pc = "update"
    /\ \/ Failures /\ pc' = "start" /\ UNCHANGED <<clock, sntp, retry>>
       \/ stored = Missing /\ InitializeSntp /\ UNCHANGED clock
       \/ /\ stored # Missing
          /\ clock' \in (stored - Skew) .. (stored + Skew)
          /\ pc' = "start" /\ UNCHANGED <<sntp, retry>>
    /\ UNCHANGED <<real, stored, err, due, resets>>

\* The client sets the clock, whether anybody still waits for it or not.
Answer ==
    /\ sntp = "asking"
    /\ sntp' = "answered" /\ clock' = real
    /\ UNCHANGED <<real, stored, pc, retry, err, due, resets>>

TimeOutIgnored ==
    /\ pc = "wait" /\ sntp = "asking"
    /\ retry' = retry + 1
    /\ pc' = IF retry' = RetryCount THEN "store" ELSE "wait"
    /\ UNCHANGED <<real, clock, stored, sntp, err, due, resets>>

TimeOutUncounted ==
    /\ pc = "wait" /\ sntp = "asking"
    /\ UNCHANGED <<pc, retry, err, real, clock, stored, sntp, due, resets>>

\* Two seconds without an answer; after the last try the fetch fails.
TimeOut ==
    /\ pc = "wait" /\ sntp = "asking"
    /\ retry' = retry + 1
    /\ \/ retry' # RetryCount /\ UNCHANGED <<pc, err>>
       \/ retry' = RetryCount /\ pc' = "exit" /\ err' = "ESP_FAIL"
    /\ UNCHANGED <<real, clock, stored, sntp, due, resets>>

\* esp_netif_sntp_sync_wait returns ESP_OK.
Synced ==
    /\ pc = "wait" /\ sntp = "answered"
    /\ pc' = "store"
    /\ UNCHANGED <<real, clock, stored, sntp, retry, err, due, resets>>

StoreTimeUnchecked ==
    /\ pc = "store" /\ pc' = "exit" /\ err' = "ESP_OK"
    /\ stored' = clock \/ (Failures /\ UNCHANGED stored)
    /\ UNCHANGED <<real, clock, sntp, retry, due, resets>>

\* time(), then the write to NVS.
StoreTime ==
    /\ pc = "store" /\ pc' = "exit"
    /\ \/ stored' = clock /\ err' = "ESP_OK"
       \/ Failures /\ UNCHANGED stored /\ err' = "ESP_FAIL"
    /\ UNCHANGED <<real, clock, sntp, retry, due, resets>>

\* Back in doTime, or in the timer task.
Exit ==
    /\ pc = "exit"
    /\ sntp' = "off"
    /\ pc' = IF due = Never THEN "start" ELSE "idle"
    /\ UNCHANGED <<real, clock, stored, retry, err, due, resets>>

\* Without a timer nothing fires (or the start through the handle that nobody
\* has set crashes, which is a reset).
StartTimer ==
    /\ pc = "start" /\ pc' = "idle"
    /\ due' = real + Period \/ (Failures /\ UNCHANGED due)
    /\ UNCHANGED <<real, clock, stored, sntp, retry, err, resets>>

TimerFires ==
    /\ pc = "idle" /\ due # Never /\ due <= real
    /\ due' = due + Period
    /\ InitializeSntp
    /\ UNCHANGED <<real, clock, stored, err, resets>>

-----------------------------------------------------------------------------
Tick ==
    /\ pc = "idle" /\ real < MaxTime /\ (due # Never => real < due)
    /\ real' = real + 1 /\ clock' = clock + 1
    /\ UNCHANGED <<stored, sntp, pc, retry, err, due, resets>>

\* The console deletes the key, or all of NVS.
Delete ==
    /\ stored # Missing /\ stored' = Missing
    /\ UNCHANGED <<real, clock, sntp, pc, retry, err, due, resets>>

\* Any time may pass until doTime runs. The clock runs on through esp_restart
\* or a panic, and begins again at power-on.
Reset ==
    /\ resets < MaxResets /\ resets' = resets + 1
    /\ \E d \in 0 .. (MaxTime - real) :
         real' = real + d /\ (clock' = clock + d \/ clock' \in 0 .. d)
    /\ pc' = "update" /\ sntp' = "off" /\ retry' = 0 /\ err' = "none" /\ due' = Never
    /\ UNCHANGED stored

Init ==
    /\ real = Start /\ clock = 0 /\ stored = Missing
    /\ pc = "update" /\ sntp = "off" /\ retry = 0 /\ err = "none" /\ due = Never
    /\ resets = 0

\* The task that runs doTime, or the timer task.
Task ==
    \/ UpdateTimeFromNvs \/ TimeOut \/ Synced \/ StoreTime \/ Exit
    \/ StartTimer \/ TimerFires

Next == Task \/ Answer \/ Tick \/ Delete \/ Reset

Spec == Init /\ [][Next]_vars

\* The scheduler runs the task, and every wait has a timeout.
FairSpec == Spec /\ WF_vars(Task)

-----------------------------------------------------------------------------
\* The variables have their types.
TypeOK ==
    /\ real \in Start .. MaxTime /\ clock \in Int
    /\ stored \in Int \cup {Missing} /\ due \in Int \cup {Never}
    /\ sntp \in {"off", "asking", "answered"}
    /\ pc \in {"update", "wait", "store", "exit", "start", "idle"}
    /\ retry \in 0 .. RetryCount
    /\ err \in {"none", "ESP_OK", "ESP_FAIL"}
    /\ resets \in 0 .. MaxResets

\* The stamp is a time that SNTP has told: a failed fetch never stores the
\* time of a clock that nobody has set (main/time_sync.c:59-74).
StampGenuine == stored # Missing => Start <= stored /\ stored <= real

\* Neither failed reads, nor resets, nor answers that come too late take the
\* stamp back (main/time_sync.c:44-50, 59-74).
StampNeverBack ==
    [][stored # Missing /\ stored' # Missing => stored <= stored']_vars

\* While the last fetch was a success and the timer runs, the stamp is at
\* most a period old, so that a power cut costs the clock a day at most
\* (main/time_sync.c:90-95, 151).
StampFresh ==
    pc = "idle" /\ err = "ESP_OK" /\ due # Never /\ stored # Missing =>
        real - stored <= Period

\* doTime and the timer callback return, whether the servers answer or not
\* (main/time_sync.c:44, 131-161).
FetchEnds == pc # "idle" ~> pc = "idle"
=============================================================================
