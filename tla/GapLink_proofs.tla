--------------------------- MODULE GapLink_proofs ---------------------------
(* Proofs about GapLink, for every set of handles and number of connections. *)
EXTENDS GapLink, FiniteSetTheorems, TLAPS

-----------------------------------------------------------------------------
(* The inductive invariant.                                                *)

Ends(e) == e = Failed \/ \E h \in Handles : e = Linked(h)

\* A connection slot is free for the link the advertisement may bring.
Slots ==
    /\ IsFiniteSet(conns) /\ Cardinality(conns) <= MaxConns
    /\ hostAdv => Cardinality(conns) < MaxConns

\* At most one event that ends the advertisement is pending, and until it is
\* served the host takes itself for advertising.
OneEnd ==
    /\ ctrlAdv => hostAdv
    /\ \A i \in 1 .. Len(queue) : Ends(queue[i]) => hostAdv /\ ~ctrlAdv
    /\ \A i, j \in 1 .. Len(queue) : Ends(queue[i]) /\ Ends(queue[j]) => i = j
    /\ hostAdv /\ ~ctrlAdv /\ synced =>
         \E i \in 1 .. Len(queue) : Ends(queue[i]) \/ queue[i] = Error

\* An error silences the controller until the host has reset.
Silence ==
    /\ Pending(Error) => synced /\ links = {} /\ ~ctrlAdv
    /\ ~synced => queue = <<>> /\ links = {} /\ ~ctrlAdv
    /\ pc = "reset" => ~synced
    /\ \A i \in 1 .. Len(queue) : queue[i] = Error => i = Len(queue)

\* What the host knows of a link and what is on its way to it.
Knowledge ==
    \A h \in Handles :
        /\ h \in conns => h \in links \/ Pending(Unlinked(h)) \/ Pending(Error) \/ ~synced
        /\ h \in links => h \in conns \/ Pending(Linked(h))
        /\ Pending(Unlinked(h)) => h \notin links
        /\ Pending(Linked(h)) => /\ h \in links \/ Pending(Unlinked(h)) \/ Pending(Error)
                                 /\ h \notin conns
        /\ \A i, j \in 1 .. Len(queue) :
             queue[i] = Linked(h) /\ queue[j] = Unlinked(h) => i < j

\* An idle host without a connection advertises.
Lit == synced /\ pc = "idle" /\ conns = {} => hostAdv

IInv == TypeOK /\ Slots /\ OneEnd /\ Silence /\ Knowledge /\ Lit

-----------------------------------------------------------------------------
(* Events and the queue they wait in.                                      *)

\* The kinds of events differ, and an event names its link.
LEMMA EventsDiffer ==
    ASSUME NEW g, NEW h
    PROVE  /\ Linked(g) # Unlinked(h) /\ Linked(g) # Written(h) /\ Unlinked(g) # Written(h)
           /\ Error # Linked(g) /\ Error # Unlinked(g) /\ Error # Written(g)
           /\ Failed # Linked(g) /\ Failed # Unlinked(g) /\ Failed # Written(g)
           /\ Failed # Error
           /\ Linked(g) = Linked(h) => g = h
           /\ Unlinked(g) = Unlinked(h) => g = h
<1>1. /\ Linked(g).kind = "connected" /\ Unlinked(g).kind = "disconnected"
      /\ Unlinked(h).kind = "disconnected" /\ Written(h).kind = "write"
      /\ Written(g).kind = "write" /\ Failed.kind = "failed" /\ Error.kind = "error"
      /\ Linked(g).conn = g /\ Linked(h).conn = h
      /\ Unlinked(g).conn = g /\ Unlinked(h).conn = h
  BY DEF Linked, Unlinked, Written, Failed, Error
<1> QED  BY <1>1

\* Every event the actions name is an event.
LEMMA EventsAreEvents ==
    /\ \A h \in Handles : Linked(h) \in Event /\ Unlinked(h) \in Event /\ Written(h) \in Event
    /\ Failed \in Event /\ Error \in Event
BY DEF Linked, Unlinked, Written, Failed, Error, Event

\* Notify adds one event behind the others.
LEMMA NotifyAppends ==
    ASSUME TypeOK, NEW e \in Event, Notify(e)
    PROVE  /\ queue' \in Seq(Event)
           /\ Len(queue) \in Nat /\ Len(queue') = Len(queue) + 1
           /\ \A i \in 1 .. Len(queue) : queue'[i] = queue[i]
           /\ queue'[Len(queue) + 1] = e
BY DEF TypeOK, Notify

LEMMA NotifyPending ==
    ASSUME TypeOK, NEW e \in Event, Notify(e)
    PROVE  \A x : Pending(x)' <=> Pending(x) \/ x = e
<1>1. \A i : i \in 1 .. Len(queue') <=> i \in 1 .. Len(queue) \/ i = Len(queue) + 1
  BY NotifyAppends
<1> QED  BY <1>1, NotifyAppends DEF Pending

\* Serve takes the first event away.
LEMMA ServeRemoves ==
    ASSUME TypeOK, NEW e, Serve(e)
    PROVE  /\ queue' \in Seq(Event)
           /\ Len(queue) \in Nat \ {0} /\ Len(queue') = Len(queue) - 1
           /\ \A i \in 1 .. Len(queue') : i + 1 \in 1 .. Len(queue) /\ queue'[i] = queue[i + 1]
           /\ 1 \in 1 .. Len(queue) /\ queue[1] = e
BY DEF TypeOK, Serve

LEMMA ServePending ==
    ASSUME TypeOK, NEW e, Serve(e)
    PROVE  /\ Pending(e)
           /\ \A x : Pending(x)' => Pending(x)
           /\ \A x : Pending(x) => Pending(x)' \/ x = e
<1>1. \A i \in 1 .. Len(queue) : i = 1 \/ (i - 1 \in 1 .. Len(queue') /\ queue'[i - 1] = queue[i])
  BY ServeRemoves
<1> QED  BY <1>1, ServeRemoves, ZenonT(40) DEF Pending
-----------------------------------------------------------------------------
(* The steps.                                                              *)

LEMMA InitIInv == Init => IInv
<1> SUFFICES ASSUME Init PROVE IInv
  OBVIOUS
<1> USE ConnsAssumption DEF Init
<1>1. TypeOK
  <2>1. queue \in Seq(Event)
    BY DEF Init
  <2>2. errors \in 0 .. MaxErrors
    BY ConnsAssumption DEF Init
  <2> QED  BY <2>1, <2>2 DEF TypeOK, Init
<1>2. Slots
  BY FS_EmptySet DEF Slots
<1>3. OneEnd /\ Silence /\ Knowledge /\ Lit
  BY DEF OneEnd, Silence, Knowledge, Lit, Pending
<1> QED  BY <1>1, <1>2, <1>3 DEF IInv

LEMMA ConnectPreserves == ASSUME IInv, NEW h \in Handles, Connect(h) PROVE IInv'
<1> USE DEF IInv, Connect, controller
<1> DEFINE e == Linked(h)
<1>e. e \in Event /\ Notify(e) /\ TypeOK
  BY EventsAreEvents
<1>q. /\ queue' \in Seq(Event)
      /\ Len(queue) \in Nat /\ Len(queue') = Len(queue) + 1
      /\ \A i \in 1 .. Len(queue) : queue'[i] = queue[i]
      /\ queue'[Len(queue) + 1] = e
  BY <1>e, NotifyAppends
<1>r. \A i : i \in 1 .. Len(queue') <=> i \in 1 .. Len(queue) \/ i = Len(queue) + 1
  BY <1>q
<1>p. \A x : Pending(x)' <=> Pending(x) \/ x = e
  BY <1>e, NotifyPending
<1>1. TypeOK'
  BY <1>q DEF TypeOK
<1>2. Slots'
  BY DEF Slots
<1>3. OneEnd'
  BY <1>q, <1>r, EventsDiffer DEF OneEnd, Ends, Silence, Pending
<1>4. Silence'
  BY <1>q, <1>p, <1>r, EventsDiffer DEF Silence, Pending
<1>5. Knowledge'
  BY <1>q, <1>p, EventsDiffer, SMTT(30) DEF Knowledge, Silence, Pending
<1>6. Lit'
  BY DEF Lit
<1> QED  BY <1>1, <1>2, <1>3, <1>4, <1>5, <1>6

LEMMA DisconnectPreserves == ASSUME IInv, NEW h \in Handles, Disconnect(h) PROVE IInv'
<1> USE DEF IInv, Disconnect, controller
<1> DEFINE e == Unlinked(h)
<1>e. e \in Event /\ Notify(e) /\ TypeOK
  BY EventsAreEvents
<1>q. /\ queue' \in Seq(Event)
      /\ Len(queue) \in Nat /\ Len(queue') = Len(queue) + 1
      /\ \A i \in 1 .. Len(queue) : queue'[i] = queue[i]
      /\ queue'[Len(queue) + 1] = e
  BY <1>e, NotifyAppends
<1>r. \A i : i \in 1 .. Len(queue') <=> i \in 1 .. Len(queue) \/ i = Len(queue) + 1
  BY <1>q
<1>p. \A x : Pending(x)' <=> Pending(x) \/ x = e
  BY <1>e, NotifyPending
<1>1. TypeOK'
  BY <1>q DEF TypeOK
<1>2. Slots'
  BY DEF Slots
<1>3. OneEnd'
  BY <1>q, <1>r, EventsDiffer, SMTT(90) DEF OneEnd, Ends, Silence, Pending
<1>4. Silence'
  BY <1>q, <1>p, <1>r, EventsDiffer DEF Silence, Pending
<1>5. Knowledge'
  BY <1>q, <1>p, EventsDiffer, SMTT(30) DEF Knowledge, Silence, Pending
<1>6. Lit'
  BY DEF Lit
<1> QED  BY <1>1, <1>2, <1>3, <1>4, <1>5, <1>6

LEMMA WritePreserves == ASSUME IInv, NEW h \in Handles, Write(h) PROVE IInv'
<1> USE DEF IInv, Write, controller
<1> DEFINE e == Written(h)
<1>e. e \in Event /\ Notify(e) /\ TypeOK
  BY EventsAreEvents
<1>q. /\ queue' \in Seq(Event)
      /\ Len(queue) \in Nat /\ Len(queue') = Len(queue) + 1
      /\ \A i \in 1 .. Len(queue) : queue'[i] = queue[i]
      /\ queue'[Len(queue) + 1] = e
  BY <1>e, NotifyAppends
<1>r. \A i : i \in 1 .. Len(queue') <=> i \in 1 .. Len(queue) \/ i = Len(queue) + 1
  BY <1>q
<1>p. \A x : Pending(x)' <=> Pending(x) \/ x = e
  BY <1>e, NotifyPending
<1>1. TypeOK'
  BY <1>q DEF TypeOK
<1>2. Slots'
  BY DEF Slots
<1>3. OneEnd'
  <2>1. ~Ends(e)
    BY EventsDiffer DEF Ends
  <2>2. \A i \in 1 .. Len(queue') : Ends(queue'[i]) =>
            i \in 1 .. Len(queue) /\ Ends(queue[i])
    BY <1>q, <1>r, <2>1
  <2>3. \A i \in 1 .. Len(queue) : i \in 1 .. Len(queue') /\ queue'[i] = queue[i]
    BY <1>q, <1>r
  <2>4. Len(queue) + 1 \in 1 .. Len(queue')
    BY <1>q
  <2> HIDE DEF Ends, e
  <2> QED  BY <1>q, <2>2, <2>3, <2>4 DEF OneEnd, e
<1>4. Silence'
  BY <1>q, <1>p, <1>r, EventsDiffer DEF Silence, Pending
<1>5. Knowledge'
  BY <1>q, <1>p, EventsDiffer, SMTT(30) DEF Knowledge, Silence, Pending
<1>6. Lit'
  BY DEF Lit
<1> QED  BY <1>1, <1>2, <1>3, <1>4, <1>5, <1>6

LEMMA ConnectFailsPreserves == ASSUME IInv, ConnectFails PROVE IInv'
<1> USE DEF IInv, ConnectFails, controller
<1> DEFINE e == Failed
<1>e. e \in Event /\ Notify(e) /\ TypeOK
  BY EventsAreEvents
<1>q. /\ queue' \in Seq(Event)
      /\ Len(queue) \in Nat /\ Len(queue') = Len(queue) + 1
      /\ \A i \in 1 .. Len(queue) : queue'[i] = queue[i]
      /\ queue'[Len(queue) + 1] = e
  BY <1>e, NotifyAppends
<1>r. \A i : i \in 1 .. Len(queue') <=> i \in 1 .. Len(queue) \/ i = Len(queue) + 1
  BY <1>q
<1>p. \A x : Pending(x)' <=> Pending(x) \/ x = e
  BY <1>e, NotifyPending
<1>1. TypeOK'
  BY <1>q DEF TypeOK
<1>2. Slots'
  BY DEF Slots
<1>3. OneEnd'
  BY <1>q, <1>r, EventsDiffer DEF OneEnd, Ends, Silence, Pending
<1>4. Silence'
  BY <1>q, <1>p, <1>r, EventsDiffer DEF Silence, Pending
<1>5. Knowledge'
  BY <1>q, <1>p, EventsDiffer, SMTT(30) DEF Knowledge, Silence, Pending
<1>6. Lit'
  BY DEF Lit
<1> QED  BY <1>1, <1>2, <1>3, <1>4, <1>5, <1>6

LEMMA HardwareErrorPreserves == ASSUME IInv, HardwareError PROVE IInv'
<1> USE DEF IInv, HardwareError, controller
<1> DEFINE e == Error
<1>e. e \in Event /\ Notify(e) /\ TypeOK
  BY EventsAreEvents
<1>q. /\ queue' \in Seq(Event)
      /\ Len(queue) \in Nat /\ Len(queue') = Len(queue) + 1
      /\ \A i \in 1 .. Len(queue) : queue'[i] = queue[i]
      /\ queue'[Len(queue) + 1] = e
  BY <1>e, NotifyAppends
<1>r. \A i : i \in 1 .. Len(queue') <=> i \in 1 .. Len(queue) \/ i = Len(queue) + 1
  BY <1>q
<1>p. \A x : Pending(x)' <=> Pending(x) \/ x = e
  BY <1>e, NotifyPending
<1>1. TypeOK'
  <2>1. errors' \in 0 .. MaxErrors
    BY ConnsAssumption DEF TypeOK
  <2> QED  BY <1>q, <2>1 DEF TypeOK
<1>2. Slots'
  BY DEF Slots
<1>3. OneEnd'
  <2>1. ~Ends(e)
    BY EventsDiffer DEF Ends
  <2>2. \A i \in 1 .. Len(queue') : Ends(queue'[i]) =>
            i \in 1 .. Len(queue) /\ Ends(queue[i])
    BY <1>q, <1>r, <2>1
  <2>3. \A i \in 1 .. Len(queue) : i \in 1 .. Len(queue') /\ queue'[i] = queue[i]
    BY <1>q, <1>r
  <2>4. Len(queue) + 1 \in 1 .. Len(queue')
    BY <1>q
  <2> HIDE DEF Ends, e
  <2> QED  BY <1>q, <2>2, <2>3, <2>4 DEF OneEnd, e
<1>4. Silence'
  BY <1>q, <1>p, <1>r, EventsDiffer DEF Silence, Pending
<1>5. Knowledge'
  BY <1>q, <1>p, EventsDiffer, SMTT(30) DEF Knowledge, Silence, Pending
<1>6. Lit'
  BY DEF Lit
<1> QED  BY <1>1, <1>2, <1>3, <1>4, <1>5, <1>6

LEMMA OnConnectPreserves == ASSUME IInv, NEW h \in Handles, OnConnect(h) PROVE IInv'
<1> USE DEF IInv, OnConnect, controller
<1> DEFINE e == Linked(h)
<1>e. Serve(e) /\ TypeOK /\ pc = "idle"
  BY DEF Serve
<1>q. /\ queue' \in Seq(Event)
      /\ Len(queue) \in Nat \ {0} /\ Len(queue') = Len(queue) - 1
      /\ \A i \in 1 .. Len(queue') : i + 1 \in 1 .. Len(queue) /\ queue'[i] = queue[i + 1]
      /\ 1 \in 1 .. Len(queue) /\ queue[1] = e
  BY <1>e, ServeRemoves
<1>r. \A i \in 1 .. Len(queue) :
        i = 1 \/ (i - 1 \in 1 .. Len(queue') /\ queue'[i - 1] = queue[i])
  BY <1>q
<1>p. /\ Pending(e)
      /\ \A x : Pending(x)' => Pending(x)
      /\ \A x : Pending(x) => Pending(x)' \/ x = e
  BY <1>e, ServePending
<1>1. TypeOK'
  BY <1>q DEF TypeOK
<1>2. Slots'
  <2>1. Ends(queue[1])
    BY <1>q DEF Ends
  <2>2. hostAdv
    BY <1>q, <2>1 DEF OneEnd
  <2>3. Cardinality(conns) \in Nat /\ IsFiniteSet(conns) /\ Cardinality(conns) < MaxConns
    BY <2>2, FS_CardinalityType DEF Slots
  <2>4. /\ IsFiniteSet(conns \cup {h})
        /\ Cardinality(conns \cup {h}) <= Cardinality(conns) + 1
    BY <2>3, FS_AddElement, SMTT(90)
  <2>5. Cardinality(conns \cup {h}) \in Nat
    BY <2>4, FS_CardinalityType
  <2> QED  BY <2>3, <2>4, <2>5, ConnsAssumption DEF Slots
<1>3. OneEnd'
  BY <1>q, <1>r, EventsDiffer, SMTT(30) DEF OneEnd, Ends, Silence
<1>4. Silence'
  BY <1>q, <1>p, <1>r, EventsDiffer, SMTT(30) DEF Silence, Pending
<1>5. Knowledge'
  <2> SUFFICES ASSUME NEW g \in Handles
               PROVE  /\ g \in conns' => g \in links' \/ Pending(Unlinked(g))'
                                         \/ Pending(Error)' \/ ~synced'
                      /\ g \in links' => g \in conns' \/ Pending(Linked(g))'
                      /\ Pending(Unlinked(g))' => g \notin links'
                      /\ Pending(Linked(g))' =>
                           /\ g \in links' \/ Pending(Unlinked(g))' \/ Pending(Error)'
                           /\ g \notin conns'
                      /\ \A i, j \in 1 .. Len(queue') :
                           queue'[i] = Linked(g) /\ queue'[j] = Unlinked(g) => i < j
    BY DEF Knowledge, Linked, Unlinked
  <2>1. g \in conns' => g \in links' \/ Pending(Unlinked(g))' \/ Pending(Error)' \/ ~synced'
    BY <1>p, EventsDiffer DEF Knowledge
  <2>2. g \in links' => g \in conns' \/ Pending(Linked(g))'
    BY <1>p, EventsDiffer DEF Knowledge
  <2>3. Pending(Unlinked(g))' => g \notin links'
    BY <1>p DEF Knowledge
  <2>4. Pending(Linked(g))' => g \in links' \/ Pending(Unlinked(g))' \/ Pending(Error)'
    BY <1>q, <1>p, EventsDiffer DEF Knowledge, Pending
  <2>5. Pending(Linked(g))' => g \notin conns'
    BY <1>q, <1>p, EventsDiffer, SMTT(30) DEF Knowledge, OneEnd, Ends, Pending
  <2>6. \A i, j \in 1 .. Len(queue') :
          queue'[i] = Linked(g) /\ queue'[j] = Unlinked(g) => i < j
    BY <1>q DEF Knowledge
  <2> QED  BY <2>1, <2>2, <2>3, <2>4, <2>5, <2>6
<1>6. Lit'
  BY <1>e DEF Lit
<1> QED  BY <1>1, <1>2, <1>3, <1>4, <1>5, <1>6

LEMMA OnDisconnectPreserves == ASSUME IInv, NEW h \in Handles, OnDisconnect(h) PROVE IInv'
<1> USE DEF IInv, OnDisconnect, controller
<1> DEFINE e == Unlinked(h)
<1>e. Serve(e) /\ TypeOK /\ pc = "idle"
  BY DEF Serve
<1>q. /\ queue' \in Seq(Event)
      /\ Len(queue) \in Nat \ {0} /\ Len(queue') = Len(queue) - 1
      /\ \A i \in 1 .. Len(queue') : i + 1 \in 1 .. Len(queue) /\ queue'[i] = queue[i + 1]
      /\ 1 \in 1 .. Len(queue) /\ queue[1] = e
  BY <1>e, ServeRemoves
<1>r. \A i \in 1 .. Len(queue) :
        i = 1 \/ (i - 1 \in 1 .. Len(queue') /\ queue'[i - 1] = queue[i])
  BY <1>q
<1>p. /\ Pending(e)
      /\ \A x : Pending(x)' => Pending(x)
      /\ \A x : Pending(x) => Pending(x)' \/ x = e
  BY <1>e, ServePending
<1>1. TypeOK'
  BY <1>q DEF TypeOK
<1>2. Slots'
  <2>1. /\ IsFiniteSet(conns \ {h}) /\ Cardinality(conns) \in Nat
        /\ Cardinality(conns \ {h}) \in Nat
    BY FS_RemoveElement, FS_CardinalityType DEF Slots
  <2>2. Cardinality(conns \ {h}) <= Cardinality(conns)
    BY <2>1, FS_RemoveElement DEF Slots
  <2> QED  BY <2>1, <2>2, ConnsAssumption DEF Slots
<1>3. OneEnd'
  BY <1>q, <1>r, EventsDiffer, SMTT(90) DEF OneEnd, Ends, Silence
<1>4. Silence'
  BY <1>q, <1>p, <1>r, EventsDiffer, SMTT(30) DEF Silence, Pending
<1>5. Knowledge'
  <2> SUFFICES ASSUME NEW g \in Handles
               PROVE  /\ g \in conns' => g \in links' \/ Pending(Unlinked(g))'
                                         \/ Pending(Error)' \/ ~synced'
                      /\ g \in links' => g \in conns' \/ Pending(Linked(g))'
                      /\ Pending(Unlinked(g))' => g \notin links'
                      /\ Pending(Linked(g))' =>
                           /\ g \in links' \/ Pending(Unlinked(g))' \/ Pending(Error)'
                           /\ g \notin conns'
                      /\ \A i, j \in 1 .. Len(queue') :
                           queue'[i] = Linked(g) /\ queue'[j] = Unlinked(g) => i < j
    BY DEF Knowledge, Linked, Unlinked
  <2>1. g \in conns' => g \in links' \/ Pending(Unlinked(g))' \/ Pending(Error)' \/ ~synced'
    BY <1>p, EventsDiffer DEF Knowledge
  <2>2. g \in links' => g \in conns' \/ Pending(Linked(g))'
    BY <1>p, EventsDiffer DEF Knowledge
  <2>3. Pending(Unlinked(g))' => g \notin links'
    BY <1>p DEF Knowledge
  <2>4. Pending(Linked(g))' => g \in links' \/ Pending(Unlinked(g))' \/ Pending(Error)'
    <3>1. ASSUME Pending(Linked(g))' PROVE g # h
      <4>1. PICK i \in 1 .. Len(queue') : queue'[i] = Linked(g)
        BY <3>1 DEF Pending
      <4>2. i + 1 \in 1 .. Len(queue) /\ queue[i + 1] = Linked(g)
        BY <1>q, <4>1
      <4>3. ~(i + 1 < 1)
        BY <1>q, <4>1
      <4> QED  BY <1>q, <4>2, <4>3 DEF Knowledge
    <3>2. Pending(Linked(g))' => Pending(Linked(g))
      BY <1>p
    <3>3. g # h => (Pending(Unlinked(g)) => Pending(Unlinked(g))')
      BY <1>p, EventsDiffer
    <3>4. Pending(Error) => Pending(Error)'
      BY <1>p, EventsDiffer
    <3> HIDE DEF Pending
    <3> QED  BY <3>1, <3>2, <3>3, <3>4 DEF Knowledge
  <2>5. Pending(Linked(g))' => g \notin conns'
    BY <1>q, <1>p, EventsDiffer DEF Knowledge, OneEnd, Ends, Pending
  <2>6. \A i, j \in 1 .. Len(queue') :
          queue'[i] = Linked(g) /\ queue'[j] = Unlinked(g) => i < j
    BY <1>q DEF Knowledge
  <2> QED  BY <2>1, <2>2, <2>3, <2>4, <2>5, <2>6
<1>6. Lit'
  BY <1>e DEF Lit
<1> QED  BY <1>1, <1>2, <1>3, <1>4, <1>5, <1>6

LEMMA OnWritePreserves == ASSUME IInv, NEW h \in Handles, OnWrite(h) PROVE IInv'
<1> USE DEF IInv, OnWrite, controller
<1> DEFINE e == Written(h)
<1>e. Serve(e) /\ TypeOK /\ pc = "idle"
  BY DEF Serve
<1>q. /\ queue' \in Seq(Event)
      /\ Len(queue) \in Nat \ {0} /\ Len(queue') = Len(queue) - 1
      /\ \A i \in 1 .. Len(queue') : i + 1 \in 1 .. Len(queue) /\ queue'[i] = queue[i + 1]
      /\ 1 \in 1 .. Len(queue) /\ queue[1] = e
  BY <1>e, ServeRemoves
<1>r. \A i \in 1 .. Len(queue) :
        i = 1 \/ (i - 1 \in 1 .. Len(queue') /\ queue'[i - 1] = queue[i])
  BY <1>q
<1>p. /\ Pending(e)
      /\ \A x : Pending(x)' => Pending(x)
      /\ \A x : Pending(x) => Pending(x)' \/ x = e
  BY <1>e, ServePending
<1>1. TypeOK'
  BY <1>q DEF TypeOK
<1>2. Slots'
  BY DEF Slots
<1>3. OneEnd'
  <2>1. ~Ends(e) /\ e # Error
    BY EventsDiffer DEF Ends
  <2>2. \A i \in 1 .. Len(queue) : Ends(queue[i]) \/ queue[i] = Error =>
            i - 1 \in 1 .. Len(queue') /\ queue'[i - 1] = queue[i]
    BY <1>q, <1>r, <2>1
  <2> HIDE DEF Ends, e
  <2>3. hostAdv' = hostAdv /\ ctrlAdv' = ctrlAdv /\ synced' = synced
    OBVIOUS
  <2>4. \A i \in 1 .. Len(queue') : Ends(queue'[i]) => hostAdv' /\ ~ctrlAdv'
    BY <1>q, <2>3, SMTT(30) DEF OneEnd
  <2>5. \A i, j \in 1 .. Len(queue') : Ends(queue'[i]) /\ Ends(queue'[j]) => i = j
    <3> SUFFICES ASSUME NEW i \in 1 .. Len(queue'), NEW j \in 1 .. Len(queue'),
                        Ends(queue'[i]), Ends(queue'[j])
                 PROVE  i = j
      BY DEF Ends
    <3>1. i + 1 \in 1 .. Len(queue) /\ j + 1 \in 1 .. Len(queue) /\ i + 1 = j + 1
      BY <1>q DEF OneEnd
    <3> QED  BY <3>1
  <2>6. hostAdv' /\ ~ctrlAdv' /\ synced' =>
          \E i \in 1 .. Len(queue') : Ends(queue'[i]) \/ queue'[i] = Error
    BY <2>2, <2>3 DEF OneEnd
  <2> QED  BY <2>3, <2>4, <2>5, <2>6 DEF OneEnd, Ends
<1>4. Silence'
  BY <1>q, <1>p, <1>r, EventsDiffer DEF Silence, Pending
<1>5. Knowledge'
  BY <1>q, <1>p, EventsDiffer DEF Knowledge, Silence
<1>6. Lit'
  BY <1>e DEF Lit
<1> QED  BY <1>1, <1>2, <1>3, <1>4, <1>5, <1>6

LEMMA OnConnectFailedPreserves == ASSUME IInv, OnConnectFailed PROVE IInv'
<1> USE DEF IInv, OnConnectFailed, controller
<1> DEFINE e == Failed
<1>e. Serve(e) /\ TypeOK /\ pc = "idle"
  BY DEF Serve
<1>q. /\ queue' \in Seq(Event)
      /\ Len(queue) \in Nat \ {0} /\ Len(queue') = Len(queue) - 1
      /\ \A i \in 1 .. Len(queue') : i + 1 \in 1 .. Len(queue) /\ queue'[i] = queue[i + 1]
      /\ 1 \in 1 .. Len(queue) /\ queue[1] = e
  BY <1>e, ServeRemoves
<1>r. \A i \in 1 .. Len(queue) :
        i = 1 \/ (i - 1 \in 1 .. Len(queue') /\ queue'[i - 1] = queue[i])
  BY <1>q
<1>p. /\ Pending(e)
      /\ \A x : Pending(x)' => Pending(x)
      /\ \A x : Pending(x) => Pending(x)' \/ x = e
  BY <1>e, ServePending
<1>1. TypeOK'
  BY <1>q DEF TypeOK
<1>2. Slots'
  BY DEF Slots
<1>3. OneEnd'
  BY <1>q, <1>r, EventsDiffer DEF OneEnd, Ends, Silence
<1>4. Silence'
  BY <1>q, <1>p, <1>r, EventsDiffer DEF Silence, Pending
<1>5. Knowledge'
  BY <1>q, <1>p, EventsDiffer DEF Knowledge, Silence
<1>6. Lit'
  BY <1>e DEF Lit
<1> QED  BY <1>1, <1>2, <1>3, <1>4, <1>5, <1>6

LEMMA OnErrorPreserves == ASSUME IInv, OnError PROVE IInv'
<1> USE DEF IInv, OnError, controller
<1> DEFINE e == Error
<1>e. Serve(e) /\ TypeOK /\ pc = "idle"
  BY DEF Serve
<1>q. /\ queue' \in Seq(Event)
      /\ Len(queue) \in Nat \ {0} /\ Len(queue') = Len(queue) - 1
      /\ \A i \in 1 .. Len(queue') : i + 1 \in 1 .. Len(queue) /\ queue'[i] = queue[i + 1]
      /\ 1 \in 1 .. Len(queue) /\ queue[1] = e
  BY <1>e, ServeRemoves
<1>r. \A i \in 1 .. Len(queue) :
        i = 1 \/ (i - 1 \in 1 .. Len(queue') /\ queue'[i - 1] = queue[i])
  BY <1>q
<1>p. /\ Pending(e)
      /\ \A x : Pending(x)' => Pending(x)
      /\ \A x : Pending(x) => Pending(x)' \/ x = e
  BY <1>e, ServePending
<1>1. TypeOK'
  BY <1>q DEF TypeOK
<1>2. Slots'
  BY DEF Slots
<1>3. OneEnd'
  BY <1>q, <1>r, EventsDiffer DEF OneEnd, Ends, Silence
<1>4. Silence'
  BY <1>q, <1>p, <1>r, EventsDiffer DEF Silence, Pending
<1>5. Knowledge'
  <2> SUFFICES ASSUME NEW g \in Handles
               PROVE  /\ g \in conns' => g \in links' \/ Pending(Unlinked(g))'
                                         \/ Pending(Error)' \/ ~synced'
                      /\ g \in links' => g \in conns' \/ Pending(Linked(g))'
                      /\ Pending(Unlinked(g))' => g \notin links'
                      /\ Pending(Linked(g))' =>
                           /\ g \in links' \/ Pending(Unlinked(g))' \/ Pending(Error)'
                           /\ g \notin conns'
                      /\ \A i, j \in 1 .. Len(queue') :
                           queue'[i] = Linked(g) /\ queue'[j] = Unlinked(g) => i < j
    BY DEF Knowledge, Linked, Unlinked
  <2>1. g \in conns' => g \in links' \/ Pending(Unlinked(g))' \/ Pending(Error)' \/ ~synced'
    BY <1>p, EventsDiffer DEF Knowledge
  <2>2. g \in links' => g \in conns' \/ Pending(Linked(g))'
    BY <1>p, EventsDiffer DEF Knowledge
  <2>3. Pending(Unlinked(g))' => g \notin links'
    BY <1>p DEF Knowledge
  <2>4. Pending(Linked(g))' => g \in links' \/ Pending(Unlinked(g))' \/ Pending(Error)'
    <3>1. Len(queue') = 0
      BY <1>q DEF Silence
    <3> QED  BY <3>1 DEF Pending
  <2>5. Pending(Linked(g))' => g \notin conns'
    BY <1>q, <1>p, EventsDiffer DEF Knowledge, OneEnd, Ends, Pending
  <2>6. \A i, j \in 1 .. Len(queue') :
          queue'[i] = Linked(g) /\ queue'[j] = Unlinked(g) => i < j
    <3>1. Len(queue') = 0
      BY <1>q DEF Silence
    <3> QED  BY <3>1
  <2> QED  BY <2>1, <2>2, <2>3, <2>4, <2>5, <2>6
<1>6. Lit'
  BY <1>e DEF Lit
<1> QED  BY <1>1, <1>2, <1>3, <1>4, <1>5, <1>6

LEMMA ResetConnPreserves == ASSUME IInv, NEW h \in Handles, ResetConn(h) PROVE IInv'
<1> USE DEF IInv, ResetConn, controller
<1>p. \A x : Pending(x)' <=> Pending(x)
  BY DEF Pending
<1>1. TypeOK'
  BY DEF TypeOK
<1>2. Slots'
  <2>1. /\ IsFiniteSet(conns \ {h}) /\ Cardinality(conns) \in Nat
        /\ Cardinality(conns \ {h}) \in Nat
    BY FS_RemoveElement, FS_CardinalityType DEF Slots
  <2>2. Cardinality(conns \ {h}) <= Cardinality(conns)
    BY <2>1, FS_RemoveElement DEF Slots
  <2> QED  BY <2>1, <2>2, ConnsAssumption DEF Slots
<1>3. OneEnd'
  BY DEF OneEnd, Ends, Silence, StartAccepted, Pending
<1>4. Silence'
  BY <1>p DEF Silence
<1>5. Knowledge'
  BY <1>p DEF Knowledge, Silence
<1>6. Lit'
  BY FS_EmptySet, ConnsAssumption DEF Lit, StartAccepted
<1> QED  BY <1>1, <1>2, <1>3, <1>4, <1>5, <1>6

LEMMA ResetAdvPreserves == ASSUME IInv, ResetAdv PROVE IInv'
<1> USE DEF IInv, ResetAdv, controller
<1>p. \A x : Pending(x)' <=> Pending(x)
  BY DEF Pending
<1>1. TypeOK'
  BY DEF TypeOK
<1>2. Slots'
  BY FS_RemoveElement, FS_CardinalityType, ConnsAssumption DEF Slots, StartAccepted
<1>3. OneEnd'
  BY DEF OneEnd, Ends, Silence, StartAccepted, Pending
<1>4. Silence'
  BY <1>p DEF Silence
<1>5. Knowledge'
  BY <1>p DEF Knowledge, Silence
<1>6. Lit'
  BY FS_EmptySet, ConnsAssumption DEF Lit, StartAccepted
<1> QED  BY <1>1, <1>2, <1>3, <1>4, <1>5, <1>6

LEMMA OnSyncPreserves == ASSUME IInv, OnSync PROVE IInv'
<1> USE DEF IInv, OnSync, controller
<1>p. \A x : Pending(x)' <=> Pending(x)
  BY DEF Pending
<1>1. TypeOK'
  BY DEF TypeOK
<1>2. Slots'
  BY FS_RemoveElement, FS_CardinalityType, ConnsAssumption DEF Slots, StartAccepted
<1>3. OneEnd'
  BY DEF OneEnd, Ends, Silence, StartAccepted, Pending
<1>4. Silence'
  BY <1>p DEF Silence
<1>5. Knowledge'
  BY <1>p DEF Knowledge, Silence
<1>6. Lit'
  BY FS_EmptySet, ConnsAssumption DEF Lit, StartAccepted
<1> QED  BY <1>1, <1>2, <1>3, <1>4, <1>5, <1>6

LEMMA DelayEndsPreserves == ASSUME IInv, DelayEnds PROVE IInv'
<1> USE DEF IInv, DelayEnds, controller
<1>p. \A x : Pending(x)' <=> Pending(x)
  BY DEF Pending
<1>1. TypeOK'
  BY DEF TypeOK
<1>2. Slots'
  BY FS_RemoveElement, FS_CardinalityType, ConnsAssumption DEF Slots, StartAccepted
<1>3. OneEnd'
  BY DEF OneEnd, Ends, Silence, StartAccepted, Pending
<1>4. Silence'
  BY <1>p DEF Silence
<1>5. Knowledge'
  BY <1>p DEF Knowledge, Silence
<1>6. Lit'
  BY FS_EmptySet, ConnsAssumption DEF Lit, StartAccepted
<1> QED  BY <1>1, <1>2, <1>3, <1>4, <1>5, <1>6

LEMMA AdvStartPreserves == ASSUME IInv, AdvStart PROVE IInv'
<1> USE DEF IInv, AdvStart, controller
<1>p. \A x : Pending(x)' <=> Pending(x)
  BY DEF Pending
<1>1. TypeOK'
  BY DEF TypeOK
<1>2. Slots'
  BY FS_RemoveElement, FS_CardinalityType, ConnsAssumption DEF Slots, StartAccepted
<1>3. OneEnd'
  BY DEF OneEnd, Ends, Silence, StartAccepted, Pending
<1>4. Silence'
  BY <1>p DEF Silence, StartAccepted
<1>5. Knowledge'
  BY <1>p DEF Knowledge, Silence
<1>6. Lit'
  BY FS_EmptySet, ConnsAssumption DEF Lit, StartAccepted
<1> QED  BY <1>1, <1>2, <1>3, <1>4, <1>5, <1>6


LEMMA NextPreserves == IInv /\ [Next]_vars => IInv'
<1> SUFFICES ASSUME IInv, [Next]_vars PROVE IInv'
  OBVIOUS
<1>1. CASE Environment
  BY <1>1, ConnectPreserves, DisconnectPreserves, WritePreserves,
     ConnectFailsPreserves, HardwareErrorPreserves DEF Environment
<1>2. CASE Host
  BY <1>2, OnConnectPreserves, OnDisconnectPreserves, OnWritePreserves,
     ResetConnPreserves, OnConnectFailedPreserves, OnErrorPreserves,
     ResetAdvPreserves, OnSyncPreserves, DelayEndsPreserves, AdvStartPreserves
  DEF Host
<1>3. CASE UNCHANGED vars
  BY <1>3 DEF vars, IInv, TypeOK, Slots, OneEnd, Ends, Silence, Knowledge, Lit, Pending
<1> QED  BY <1>1, <1>2, <1>3 DEF Next

-----------------------------------------------------------------------------
(* What the reachable states have in common.                               *)

\* The strengthening holds throughout: slots are kept for the link to come,
\* one end of the advertisement is pending at a time, and the host's picture
\* of the links differs from the controller's by the events under way.
THEOREM Invariance == Spec => []IInv
<1> QED  BY InitIInv, NextPreserves, PTL DEF Spec

\* The variables keep their types, for every set of handles.
THEOREM TypeCorrect == Spec => []TypeOK
<1>1. IInv => TypeOK
  BY DEF IInv
<1> QED  BY Invariance, <1>1, PTL

\* Whatever the number of connections NimBLE is configured for, the link that
\* the advertisement brings finds a free one (main/ble.c:38, 79, 188).
THEOREM LinkAlwaysFits == Spec => []LinkFits
<1>1. IInv => LinkFits
  <2> SUFFICES ASSUME IInv, queue # <<>>, NEW h \in Handles, Head(queue) = Linked(h)
               PROVE  Cardinality(conns) < MaxConns
    BY DEF LinkFits
  <2>1. 1 \in 1 .. Len(queue) /\ queue[1] = Linked(h)
    BY DEF IInv, TypeOK
  <2> QED  BY <2>1 DEF IInv, OneEnd, Slots, Ends
<1> QED  BY Invariance, <1>1, PTL

\* When every event is served, host and controller agree.
LEMMA Agreement == IInv => SidesAgree
<1> SUFFICES ASSUME IInv, synced, pc = "idle", queue = <<>>
             PROVE  hostAdv = ctrlAdv /\ conns = links
  BY DEF SidesAgree
<1>1. \A x : ~Pending(x)
  BY DEF Pending
<1>2. conns = links
  BY <1>1 DEF IInv, Knowledge, TypeOK
<1>3. hostAdv => ctrlAdv
  BY DEF IInv, OneEnd
<1> QED  BY <1>2, <1>3 DEF IInv, OneEnd, TypeOK

\* The two sides agree on links and advertisement in every quiet moment.
THEOREM SidesAlwaysAgree == Spec => []SidesAgree
<1> QED  BY Invariance, Agreement, PTL

\* A device that is up and that nobody is linked to advertises, whatever
\* connections, failures, writes and host resets went before
\* (main/ble.c:129-153, 191-195).
THEOREM NeverGoesDark == Spec => []NeverDark
<1>1. IInv => NeverDark
  BY Agreement DEF IInv, Lit, NeverDark, SidesAgree
<1> QED  BY Invariance, <1>1, PTL
=============================================================================
