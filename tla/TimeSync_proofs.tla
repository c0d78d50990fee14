-------------------------- MODULE TimeSync_proofs ---------------------------
(* Proofs about TimeSync, for any period, number of tries, skew and times.   *)
EXTENDS TimeSync, TLAPS

Fetching == pc \in {"wait", "store", "exit"}

\* The client runs only while a fetch does, and once it has answered the clock
\* is right.
ClockRight ==
    /\ sntp # "off" => Fetching
    /\ sntp = "answered" => clock = real
    /\ pc = "store" => sntp = "answered"
    /\ pc = "wait" => retry < RetryCount

\* The timer fires a period after the boot or after it has fired last, and a
\* fetch that succeeded there has stored that time.
Armed ==
    /\ pc = "update" => err = "none"
    /\ due # Never =>
        /\ pc \notin {"update", "start"}
        /\ pc = "idle" => real <= due
        /\ Fetching => due = real + Period
    /\ err = "ESP_OK" /\ stored # Missing =>
        /\ pc \in {"exit", "start"} => stored = real
        /\ pc = "idle" /\ due # Never => due <= stored + Period

IInv == TypeOK /\ StampGenuine /\ ClockRight /\ Armed

-----------------------------------------------------------------------------
LEMMA InitIInv == Init => IInv
BY TimeAssumption, TimeBoundAssumption
   DEF Init, IInv, TypeOK, StampGenuine, ClockRight, Armed, Fetching

\* Every step keeps the invariant, and a step that replaces a stamp replaces it
\* by one that is no older.
LEMMA NextIInv ==
    ASSUME IInv, Next
    PROVE  IInv' /\ (stored # Missing /\ stored' # Missing => stored <= stored')
<1> USE TimeAssumption, TimeBoundAssumption
         DEF IInv, TypeOK, StampGenuine, ClockRight, Armed, Fetching
<1>1. CASE UpdateTimeFromNvs
  <2>1. CASE pc' = "start" /\ UNCHANGED <<sntp, retry>> /\ clock' \in Int
    BY <1>1, <2>1 DEF UpdateTimeFromNvs
  <2>2. CASE InitializeSntp /\ UNCHANGED clock
    BY <1>1, <2>2 DEF UpdateTimeFromNvs, InitializeSntp
  <2>3. ASSUME stored # Missing PROVE (stored - Skew) .. (stored + Skew) \subseteq Int
    BY <2>3
  <2> QED  BY <1>1, <2>1, <2>2, <2>3 DEF UpdateTimeFromNvs
<1>2. CASE TimeOut
  BY <1>2 DEF TimeOut
<1>3. CASE Synced
  BY <1>3 DEF Synced
<1>4. CASE StoreTime
  BY <1>4 DEF StoreTime
<1>5. CASE Exit
  BY <1>5 DEF Exit
<1>6. CASE StartTimer
  BY <1>6 DEF StartTimer
<1>7. CASE TimerFires
  BY <1>7 DEF TimerFires, InitializeSntp
<1>8. CASE Answer
  BY <1>8 DEF Answer
<1>9. CASE Tick
  BY <1>9 DEF Tick
<1>10. CASE Delete
  BY <1>10 DEF Delete
<1>11. CASE Reset
  <2>1. PICK d \in 0 .. (MaxTime - real) :
           real' = real + d /\ (clock' = clock + d \/ clock' \in 0 .. d)
    BY <1>11 DEF Reset
  <2>2. real' \in Start .. MaxTime /\ real <= real' /\ clock' \in Int
    BY <2>1
  <2> QED  BY <1>11, <2>2 DEF Reset
<1> QED  BY <1>1, <1>2, <1>3, <1>4, <1>5, <1>6, <1>7, <1>8, <1>9, <1>10, <1>11 DEF Next, Task

-----------------------------------------------------------------------------
\* The inductive invariant holds (main/time_sync.c:32-154).
THEOREM Invariance == Spec => []IInv
<1>1. IInv /\ [Next]_vars => IInv'
  <2>1. CASE UNCHANGED vars
    BY <2>1 DEF vars, IInv, TypeOK, StampGenuine, ClockRight, Armed, Fetching
  <2> QED  BY <2>1, NextIInv
<1> QED  BY InitIInv, <1>1, PTL DEF Spec

\* The variables have their types (main/time_sync.c:32-154).
THEOREM TypeCorrect == Spec => []TypeOK
<1>1. IInv => TypeOK
  BY DEF IInv
<1> QED  BY Invariance, <1>1, PTL

\* The stamp is a time that SNTP has told (main/time_sync.c:59-74).
THEOREM AlwaysGenuine == Spec => []StampGenuine
<1>1. IInv => StampGenuine
  BY DEF IInv
<1> QED  BY Invariance, <1>1, PTL

\* The stamp of a device whose fetches succeed is at most a period old
\* (main/time_sync.c:90-95, 151).
THEOREM AlwaysFresh == Spec => []StampFresh
<1>1. IInv => StampFresh
  BY TimeAssumption, TimeBoundAssumption
     DEF IInv, TypeOK, StampGenuine, ClockRight, Armed, StampFresh
<1> QED  BY Invariance, <1>1, PTL

\* The stamp is never replaced by an older one (main/time_sync.c:44-50, 59-74).
THEOREM NeverBack == Spec => StampNeverBack
<1>1. IInv /\ [Next]_vars =>
        [stored # Missing /\ stored' # Missing => stored <= stored']_vars
  BY NextIInv
<1> QED  BY Invariance, <1>1, PTL DEF Spec, StampNeverBack
=============================================================================
