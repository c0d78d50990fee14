--------------------------- MODULE LedStrip_proofs ---------------------------
(* Proofs about LedStrip, for strips of any length, any colours, any memory  *)
(* of the RMT channel and any number of failures.                            *)
EXTENDS LedStrip, TLAPS, FiniteSetTheorems

RmtParts == {"object", "channel"} \cup EncoderParts
SpiParts == {"object", "bus", "device"}

\* The strip holds no more than what its backend acquires.
Owned ==
    /\ dev # NoStrip => dev.kind \in {"rmt", "spi"}
    /\ dev.kind = "none" => held = {} /\ chan = "none"
    /\ dev.kind = "rmt" => held \subseteq RmtParts
    /\ dev.kind = "spi" => held \subseteq SpiParts /\ chan = "none"

-----------------------------------------------------------------------------
LEMMA PartsAre ==
    /\ {Parts("rmt")[n] : n \in 1 .. Len(Parts("rmt"))} \subseteq RmtParts
    /\ {Parts("spi")[n] : n \in 1 .. Len(Parts("spi"))} \subseteq SpiParts
<1>1. ASSUME NEW n \in 1 .. Len(Parts("rmt")) PROVE Parts("rmt")[n] \in RmtParts
  <2>1. Parts("rmt") = <<"object", "channel", "encoder", "bytes_encoder", "copy_encoder">>
    BY DEF Parts
  <2>2. n \in 1 .. 5
    BY <2>1
  <2>3. n = 1 \/ n = 2 \/ n = 3 \/ n = 4 \/ n = 5
    BY <2>2
  <2>4. /\ Parts("rmt")[1] = "object" /\ Parts("rmt")[2] = "channel" /\ Parts("rmt")[3] = "encoder"
        /\ Parts("rmt")[4] = "bytes_encoder" /\ Parts("rmt")[5] = "copy_encoder"
    BY <2>1
  <2> QED  BY <2>3, <2>4 DEF RmtParts, EncoderParts
<1>2. ASSUME NEW n \in 1 .. Len(Parts("spi")) PROVE Parts("spi")[n] \in SpiParts
  <2>1. Parts("spi") = <<"object", "bus", "device">>
    BY DEF Parts
  <2>2. n \in 1 .. 3
    BY <2>1
  <2> QED  BY <2>1, <2>2 DEF SpiParts
<1> QED  BY <1>1, <1>2

\* The error paths of the creation release all that was acquired before them.
LEMMA ErrorPathReleases ==
    ASSUME NEW kind \in {"rmt", "spi"},
           NEW n \in 0 .. Len(Parts(kind)) - (IF kind = "rmt" THEN 1 ELSE 0)
    PROVE  CreateError(kind, {Parts(kind)[m] : m \in 1 .. n}) = {}
<1>1. CASE kind = "rmt"
  <2>1. Len(Parts(kind)) = 5
    BY <1>1 DEF Parts
  <2>2. {Parts(kind)[m] : m \in 1 .. n} \subseteq {Parts(kind)[m] : m \in 1 .. Len(Parts(kind))}
    BY <2>1, <1>1
  <2>3. {Parts(kind)[m] : m \in 1 .. n} \subseteq RmtParts
    BY <1>1, <2>2, PartsAre
  <2> QED  BY <1>1, <2>3 DEF CreateError, EncoderError, RmtParts
<1>2. CASE kind = "spi"
  <2>1. Len(Parts(kind)) = 3
    BY <1>2 DEF Parts
  <2>2. {Parts(kind)[m] : m \in 1 .. n} \subseteq {Parts(kind)[m] : m \in 1 .. Len(Parts(kind))}
    BY <2>1, <1>2
  <2>3. {Parts(kind)[m] : m \in 1 .. n} \subseteq SpiParts
    BY <1>2, <2>2, PartsAre
  <2> QED  BY <1>2, <2>3 DEF CreateError, SpiParts
<1> QED  BY <1>1, <1>2

LEMMA OpenedOwned ==
    ASSUME NEW kind \in {"rmt", "spi"}, NEW leds \in 1 .. Leds, Opened(kind, leds)
    PROVE  Owned'
<1>1. dev'.kind = kind /\ held' = {Parts(kind)[n] : n \in 1 .. Len(Parts(kind))}
      /\ chan' = IF kind = "rmt" THEN "init" ELSE "none"
  BY DEF Opened
<1> QED  BY <1>1, PartsAre DEF Owned

LEMMA RestartedOwned == ASSUME Restarted PROVE Owned'
BY DEF Restarted, Owned, NoStrip

\* Steps that neither open nor release anything.
LEMMA UsedOwned ==
    ASSUME Owned, UNCHANGED <<dev, held>>,
           chan' = chan \/ dev.kind = "rmt"
    PROVE  Owned'
BY DEF Owned

LEMMA NextOwned == ASSUME Owned, [StripNext]_stripVars PROVE Owned'
<1>1. ASSUME NEW kind \in {"rmt", "spi"}, NEW leds \in 1 .. Leds, New(kind, leds)
      PROVE  Owned'
  <2>1. CASE Opened(kind, leds)
    BY <2>1, OpenedOwned
  <2>2. CASE ~Opened(kind, leds)
    <3>1. held' = {} /\ UNCHANGED <<dev, chan>> /\ dev = NoStrip
      BY <1>1, <2>2, ErrorPathReleases DEF New
    <3> QED  BY <3>1 DEF Owned, NoStrip
  <2> QED  BY <2>1, <2>2
<1>2. CASE SetLedStripColorFirst
  <2>1. Leds \in Nat \ {0}
    BY StripAssumption
  <2> QED  BY <1>2, <2>1, OpenedOwned, RestartedOwned DEF SetLedStripColorFirst
<1>3. ASSUME NEW i \in Indices, NEW c \in Colours, SetPixel(i, c) \/ SetLedStripColor(i, c)
      PROVE  Owned'
  BY <1>3, UsedOwned DEF SetPixel, SetLedStripColor
<1>4. ASSUME NEW i \in Indices, NEW h \in Hues, SetPixelHsv(i, h)
      PROVE  Owned'
  BY <1>4, UsedOwned DEF SetPixelHsv, SetPixel
<1>5. CASE Refresh \/ Clear
  BY <1>5, UsedOwned DEF Refresh, Clear, RefreshAny, RmtRefresh, SpiRefresh
<1>6. CASE StripDriver
  BY <1>6, UsedOwned DEF StripDriver, Encode, SpiTransmit, RefreshReturn
<1>7. CASE Del
  <2>1. dev # NoStrip /\ dev.kind \in {"rmt", "spi"}
    BY <1>7 DEF Del, Owned
  <2>2. CASE dev.kind = "rmt"
    <3>1. RmtDel
      BY <1>7, <2>2 DEF Del
    <3>2. CASE answer' = "ok"
      <4>1. dev' = NoStrip /\ held' = {} /\ chan' = "none"
        BY <1>7, <2>2, <3>1, <3>2 DEF Del, RmtDel, Owned, RmtParts
      <4> QED  BY <4>1 DEF Owned, NoStrip
    <3>3. CASE answer' # "ok"
      BY <1>7, <2>2, <3>1, <3>3, UsedOwned DEF Del, RmtDel
    <3> QED  BY <3>2, <3>3
  <2>3. CASE dev.kind = "spi"
    <3>1. SpiDel /\ UNCHANGED chan
      BY <1>7, <2>3 DEF Del, SpiDel
    <3>2. CASE answer' = "ok"
      <4>1. dev' = NoStrip /\ held' = {} /\ chan' = "none"
        BY <1>7, <2>3, <3>1, <3>2 DEF Del, SpiDel, Owned, SpiParts
      <4> QED  BY <4>1 DEF Owned, NoStrip
    <3>3. CASE answer' # "ok"
      <4>1. UNCHANGED dev /\ held' \subseteq held
        BY <1>7, <3>1, <3>3 DEF Del, SpiDel
      <4> QED  BY <2>1, <2>3, <3>1, <4>1 DEF Owned
    <3> QED  BY <3>2, <3>3
  <2> QED  BY <2>1, <2>2, <2>3
<1>8. CASE Restart
  BY <1>8, RestartedOwned DEF Restart
<1>9. CASE UNCHANGED stripVars
  BY <1>9, UsedOwned DEF stripVars
<1> QED  BY <1>1, <1>2, <1>3, <1>4, <1>5, <1>6, <1>7, <1>8, <1>9 DEF StripNext

\* Whatever step of a creation or a deletion fails, and whenever the chip
\* restarts, no strip means that nothing is left allocated
\* (led_strip_rmt_dev.c, led_strip_rmt_encoder.c, led_strip_spi_dev.c).
THEOREM LeavesNothing == StripSpec => []NothingLeft
<1>1. StripInit => Owned
  BY DEF StripInit, Owned, NoStrip
<1>2. Owned /\ [StripNext]_stripVars => Owned'
  BY NextOwned
<1>3. Owned => NothingLeft
  BY DEF Owned, NothingLeft, NoStrip
<1> QED  BY <1>1, <1>2, <1>3, PTL DEF StripSpec

-----------------------------------------------------------------------------
(* The RMT encoder.                                                        *)

\* A refresh has put every symbol of every colour byte on the wire when the
\* driver is told that it is complete, however the memory of the channel cuts
\* the colours up (led_strip_rmt_encoder.c).
WholeSent == pc = "sent" /\ dev.kind = "rmt" => enc.wire = 8 * Len(buf)

Shape ==
    /\ bpp \in {3, 4} /\ dev.leds \in 0 .. Leds /\ (dev.kind = "none" <=> dev = NoStrip)
    /\ dev # NoStrip => dev.leds # 0
    /\ DOMAIN buf = 1 .. dev.leds * bpp /\ buf = [n \in 1 .. dev.leds * bpp |-> buf[n]]

\* While it waits, the driver has been given the symbols up to the next one;
\* in state 1 they are all there and only the reset code is missing.
Sent ==
    LET all == 8 * (dev.leds * bpp)
    IN  /\ pc \in {"wait", "sent"} => dev # NoStrip
        /\ pc = "wait" /\ dev.kind = "rmt" =>
             \/ enc.state = 0 /\ enc.next \in Nat /\ enc.wire = enc.next /\ enc.next < all
             \/ enc.state = 1 /\ enc.next = 0 /\ enc.wire = all
        /\ pc = "sent" /\ dev.kind = "rmt" => enc.wire = all

LEMMA LenIs ==
    ASSUME NEW k \in Nat, NEW f, f = [n \in 1 .. k |-> f[n]]
    PROVE  Len(f) = k
<1> DEFINE S == {f[n] : n \in 1 .. k}
<1>1. f \in Seq(S)
  <2>1. f \in [1 .. k -> S]
    OBVIOUS
  <2> QED  BY <2>1, SMTT(30)
<1>2. DOMAIN f = 1 .. k
  OBVIOUS
<1> QED  BY <1>1, <1>2

LEMMA LenBuf == ASSUME Shape PROVE Len(buf) = dev.leds * bpp /\ dev.leds * bpp \in Nat
<1>1. Leds \in Nat /\ dev.leds \in Nat /\ bpp \in Nat
  BY StripAssumption DEF Shape
<1>2. dev.leds * bpp \in Nat
  BY <1>1
<1> QED  BY <1>2, LenIs DEF Shape

LEMMA MinOfTwo == ASSUME NEW a \in Int, NEW b \in Int, a <= b PROVE Min({a, b}) = a
BY DEF Min

\* One call of rmt_encode_led_strip.
LEMMA EncodeSent ==
    ASSUME Shape, Sent, Encode
    PROVE  Sent'
<1> DEFINE n == dev.leds * bpp
           room == IF enc.wire = 0 THEN Symbols ELSE Symbols \div 2
<1>1. /\ pc = "wait" /\ dev.kind = "rmt" /\ dev # NoStrip /\ UNCHANGED <<dev, buf, bpp>>
      /\ enc' = Encoded(enc, room)
  BY DEF Encode, Sent
<1>2. Len(buf) = n /\ n \in Nat
  BY LenBuf
<1>3. n <= Leds * bpp /\ Leds * bpp \in Nat
  <2>1. Leds \in Nat /\ dev.leds \in Nat /\ dev.leds <= Leds
    BY StripAssumption DEF Shape
  <2>2. CASE bpp = 3
    BY <2>1, <2>2
  <2>3. CASE bpp = 4
    BY <2>1, <2>3
  <2> QED  BY <2>2, <2>3 DEF Shape
<1>4. room \in Nat
  BY StripAssumption
<1>5. 8 * n \in Nat /\ 8 * n <= 8 * Leds * bpp /\ 8 * Leds * bpp \in Nat
  <2>1. 8 * (Leds * bpp) = 8 * Leds * bpp
    BY StripAssumption DEF Shape
  <2> QED  BY <1>2, <1>3, <2>1
<1> DEFINE left == 8 * n - enc.next
           cap == 8 * Leds * bpp
           complete == enc.state = 0 => left <= room
           full == enc.state = 0 /\ left >= room
           taken == IF enc.state = 1 THEN 0 ELSE IF complete THEN left ELSE room
<1>6. /\ enc'.next = IF complete THEN 0 ELSE enc.next + room
      /\ enc'.wire = Min({enc.wire + taken, cap})
      /\ enc'.state = IF complete /\ full THEN 1 ELSE 0
      /\ enc'.ret = IF complete /\ ~full THEN "complete" ELSE "full"
  BY <1>1, <1>2 DEF Encoded, State
<1>7. pc' = IF enc'.ret = "complete" THEN "sent" ELSE pc
  BY <1>1 DEF Encode
<1> HIDE DEF room, n, cap
<1>8. CASE enc.state = 1
  <2>1. enc.wire = 8 * n /\ complete /\ ~full /\ taken = 0
    BY <1>1, <1>8 DEF Sent, n
  <2>2. enc'.wire = 8 * n
    BY <1>5, <1>6, <2>1, MinOfTwo DEF cap
  <2> QED  BY <1>1, <1>6, <1>7, <2>1, <2>2 DEF Sent, n
<1>9. CASE enc.state = 0
  <2>1. enc.next \in Nat /\ enc.wire = enc.next /\ enc.next < 8 * n
    BY <1>1, <1>9 DEF Sent, n
  <2>2. CASE left <= room
    <3>1. taken = left /\ complete /\ (full <=> left = room)
      BY <1>2, <1>4, <1>9, <2>1, <2>2
    <3>2. enc'.wire = 8 * n /\ enc'.next = 0
      BY <1>2, <1>5, <1>6, <2>1, <3>1, MinOfTwo DEF cap
    <3> QED  BY <1>1, <1>6, <1>7, <3>1, <3>2 DEF Sent, n
  <2>3. CASE ~(left <= room)
    <3>1. taken = room /\ ~complete /\ enc.wire + taken < 8 * n
      BY <1>2, <1>4, <1>9, <2>1, <2>3
    <3>2. enc'.wire = enc.next + room /\ enc'.next = enc.next + room
      BY <1>4, <1>5, <1>6, <2>1, <3>1, MinOfTwo DEF cap
    <3> QED  BY <1>1, <1>4, <1>6, <1>7, <2>1, <3>1, <3>2 DEF Sent, n
  <2> QED  BY <2>2, <2>3
<1> QED  BY <1>1, <1>8, <1>9 DEF Sent

LEMMA OpenedSent ==
    ASSUME Shape, NEW kind \in {"rmt", "spi"}, NEW leds \in 1 .. Leds, Opened(kind, leds),
           UNCHANGED bpp, pc' \notin {"wait", "sent"}
    PROVE  Shape' /\ Sent'
<1>1. /\ dev' = [kind |-> kind, leds |-> leds] /\ dev'.leds = leds /\ dev'.kind = kind
      /\ buf' = [n \in 1 .. leds * bpp |-> Zeroed(kind)]
  BY DEF Opened
<1>2. leds \in 1 .. Leds /\ leds # 0 /\ Leds \in Nat
  BY StripAssumption
<1>3. DOMAIN buf' = 1 .. leds * bpp /\ buf' = [n \in 1 .. leds * bpp |-> buf'[n]]
  BY <1>1
<1> QED  BY <1>1, <1>2, <1>3 DEF Shape, Sent, NoStrip

LEMMA ClosedSent ==
    ASSUME Shape, dev' = NoStrip, buf' = <<>>, UNCHANGED bpp, pc' \notin {"wait", "sent"}
    PROVE  Shape' /\ Sent'
<1>1. dev' = NoStrip /\ dev'.leds = 0 /\ dev'.kind = "none" /\ bpp' = bpp /\ Leds \in Nat
  BY StripAssumption DEF NoStrip
<1>2. 0 * bpp = 0 /\ 1 .. 0 = {}
  BY DEF Shape
<1>3. buf' = [n \in {} |-> buf'[n]] /\ DOMAIN buf' = {}
  BY <1>1
<1> QED  BY <1>1, <1>2, <1>3 DEF Shape, Sent

\* Steps between refreshes that may repaint the pixels.
LEMMA PaintedSent ==
    ASSUME Shape, UNCHANGED <<dev, bpp>>, pc' \notin {"wait", "sent"},
           DOMAIN buf' = DOMAIN buf, buf' = [n \in DOMAIN buf |-> buf'[n]]
    PROVE  Shape' /\ Sent'
BY DEF Shape, Sent

LEMMA StoreKeepsShape ==
    ASSUME Shape, NEW i, NEW c, Store(i, c)
    PROVE  DOMAIN buf' = DOMAIN buf /\ buf' = [n \in DOMAIN buf |-> buf'[n]]
<1>1. DOMAIN buf = 1 .. Len(buf) /\ buf = [n \in DOMAIN buf |-> buf[n]]
  BY LenBuf DEF Shape
<1>2. CASE buf' = buf
  BY <1>1, <1>2
<1>3. CASE buf' # buf
  <2>1. buf' = [n \in 1 .. Len(buf) |->
                  IF n > i * bpp /\ n <= (i + 1) * bpp
                  THEN Kept(dev.kind, Order(c)[n - i * bpp]) ELSE buf[n]]
    BY <1>3 DEF Store
  <2> QED  BY <1>1, <2>1
<1> QED  BY <1>2, <1>3

\* rmt_transmit starts the encoder anew.
LEMMA RefreshSent ==
    ASSUME Shape, Refresh \/ Clear
    PROVE  Shape' /\ Sent'
<1>1. RefreshAny /\ dev # NoStrip /\ UNCHANGED <<dev, bpp>>
  BY DEF Refresh, Clear, RefreshAny
<1>2. DOMAIN buf' = DOMAIN buf /\ buf' = [n \in DOMAIN buf |-> buf'[n]]
  BY DEF Refresh, Clear, Shape
<1>3. Shape'
  BY <1>1, <1>2 DEF Shape
<1>4. pc' \in {"wait", "idle"} /\ (pc' = "wait" => answer' = "busy")
  BY <1>1 DEF RefreshAny
<1>5. ASSUME pc' = "wait", dev.kind = "rmt" PROVE enc' = Reset
  BY <1>1, <1>4, <1>5 DEF RefreshAny, RmtRefresh
<1>6. dev.leds * bpp \in Nat /\ dev.leds * bpp > 0
  BY <1>1, StripAssumption DEF Shape
<1> QED  BY <1>1, <1>3, <1>4, <1>5, <1>6 DEF Sent, Reset

LEMMA NextSent == ASSUME Shape, Sent, [StripNext]_stripVars PROVE Shape' /\ Sent'
<1>1. ASSUME NEW kind \in {"rmt", "spi"}, NEW leds \in 1 .. Leds, New(kind, leds)
      PROVE  Shape' /\ Sent'
  <2>1. pc' = "idle" /\ UNCHANGED bpp
    BY <1>1 DEF New
  <2>2. CASE Opened(kind, leds)
    BY <2>1, <2>2, OpenedSent
  <2>3. CASE ~Opened(kind, leds)
    BY <1>1, <2>1, <2>3, PaintedSent DEF New, Shape
  <2> QED  BY <2>2, <2>3
<1>2. CASE SetLedStripColorFirst
  <2>1. 1 \in 1 .. Leds
    BY StripAssumption
  <2> QED  BY <1>2, <2>1, OpenedSent, ClosedSent DEF SetLedStripColorFirst, Restarted
<1>3. ASSUME NEW i \in Indices, NEW c, SetPixel(i, c) \/ SetLedStripColor(i, c)
      PROVE  Shape' /\ Sent'
  BY <1>3, StoreKeepsShape, PaintedSent DEF SetPixel, SetLedStripColor
<1>4. ASSUME NEW i \in Indices, NEW h \in Hues, SetPixelHsv(i, h)
      PROVE  Shape' /\ Sent'
  BY <1>3, <1>4 DEF SetPixelHsv
<1>5. CASE Refresh \/ Clear
  BY <1>5, RefreshSent
<1>6. CASE Encode
  BY <1>6, EncodeSent DEF Encode, Shape
<1>7. CASE SpiTransmit \/ RefreshReturn
  BY <1>7 DEF SpiTransmit, RefreshReturn, Shape, Sent
<1>8. CASE Del
  <2>1. pc' \in {"idle", "given up"} /\ bpp' = bpp
    BY <1>8 DEF Del
  <2>2. CASE answer' = "ok"
    BY <1>8, <2>1, <2>2, ClosedSent DEF Del
  <2>3. CASE answer' # "ok"
    BY <1>8, <2>1, <2>3, PaintedSent DEF Del, Shape
  <2> QED  BY <2>2, <2>3
<1>9. CASE Restart
  BY <1>9, ClosedSent DEF Restart, Restarted
<1>10. CASE UNCHANGED stripVars
  BY <1>10 DEF stripVars, Shape, Sent
<1> QED  BY <1>1, <1>2, <1>3, <1>4, <1>5, <1>6, <1>7, <1>8, <1>9, <1>10 DEF StripNext, StripDriver

\* Nothing of a colour is lost between two refills of the channel's memory,
\* whether the colours fill it exactly, in part or many times
\* (led_strip_rmt_encoder.c).
THEOREM SendsAll == StripSpec => []WholeSent
<1>1. ASSUME StripInit PROVE Shape /\ Sent
  <2>1. dev = NoStrip /\ dev.leds = 0 /\ dev.kind = "none" /\ buf = <<>> /\ Leds \in Nat
        /\ pc = "idle" /\ bpp \in {3, 4}
    BY <1>1, StripAssumption DEF StripInit, NoStrip
  <2>2. 0 * bpp = 0 /\ 1 .. 0 = {}
    BY <2>1
  <2>3. buf = [n \in {} |-> buf[n]] /\ DOMAIN buf = {}
    BY <2>1
  <2> QED  BY <2>1, <2>2, <2>3 DEF Shape, Sent
<1>2. Shape /\ Sent /\ [StripNext]_stripVars => Shape' /\ Sent'
  BY NextSent
<1>3. Shape /\ Sent => WholeSent
  BY LenBuf DEF Sent, WholeSent
<1> QED  BY <1>1, <1>2, <1>3, PTL DEF StripSpec

-----------------------------------------------------------------------------
(* Types.                                                                  *)

\* What is kept of a colour byte.
Cell(kind, x) == IF kind = "spi" THEN x \in Seq(0 .. 255) ELSE x \in 0 .. 255

Cells == \A n \in 1 .. dev.leds * bpp : Cell(dev.kind, buf[n])
LitType == \A i \in 1 .. Leds : Len(lit[i]) = bpp
EncType == enc \in [next : Nat, wire : Nat, state : {0, 1}, ret : {"complete", "full"}]
RestType ==
    /\ caller \in Callers /\ initialized \in BOOLEAN
    /\ dev \in [kind : {"none", "rmt", "spi"}, leds : 0 .. Leds]
    /\ chan \in {"none", "init", "enabled"}
    /\ pc \in {"idle", "created", "set", "wait", "sent", "given up"}
    /\ answer \in {"ok", "invalid", "failed", "busy", "shown"} /\ faults \in 0 .. MaxFaults

LEMMA BitsType == ASSUME NEW d \in Int PROVE SpiBits(d) \in Seq(0 .. 255)
<1> DEFINE b(k) == (d \div 2^k) % 2
<1>1. \A k \in 0 .. 7 : b(k) \in {0, 1}
  <2>1. \A x \in Int : x % 2 \in {0, 1}
    OBVIOUS
  <2>2. \A k \in 0 .. 7 : d \div 2^k \in Int
    <3>1. \A k \in 0 .. 7 : k = 0 \/ k = 1 \/ k = 2 \/ k = 3 \/ k = 4 \/ k = 5 \/ k = 6 \/ k = 7
      OBVIOUS
    <3>2. /\ d \div 2^0 \in Int /\ d \div 2^1 \in Int /\ d \div 2^2 \in Int /\ d \div 2^3 \in Int
          /\ d \div 2^4 \in Int /\ d \div 2^5 \in Int /\ d \div 2^6 \in Int /\ d \div 2^7 \in Int
      OBVIOUS
    <3> QED  BY <3>1, <3>2
  <2> QED  BY <2>1, <2>2
<1>2. SpiBits(d) = <<128 + 64 * b(7) + 16 + 8 * b(6) + 2 + b(5),
                     64 + 32 * b(4) + 8 + 4 * b(3) + 1,
                     128 * b(2) + 32 + 16 * b(1) + 4 + 2 * b(0)>>
  BY DEF SpiBits
<1> HIDE DEF b
<1>3. /\ 128 + 64 * b(7) + 16 + 8 * b(6) + 2 + b(5) \in 0 .. 255
      /\ 64 + 32 * b(4) + 8 + 4 * b(3) + 1 \in 0 .. 255
      /\ 128 * b(2) + 32 + 16 * b(1) + 4 + 2 * b(0) \in 0 .. 255
  BY <1>1
<1>4. \A x, y, z \in 0 .. 255 : <<x, y, z>> \in Seq(0 .. 255)
  BY SMTT(90)
<1>5. PICK x \in 0 .. 255, y \in 0 .. 255, z \in 0 .. 255 :
        /\ x = 128 + 64 * b(7) + 16 + 8 * b(6) + 2 + b(5)
        /\ y = 64 + 32 * b(4) + 8 + 4 * b(3) + 1
        /\ z = 128 * b(2) + 32 + 16 * b(1) + 4 + 2 * b(0)
  BY <1>3, ZenonT(90)
<1>6. SpiBits(d) = <<x, y, z>>
  BY <1>2, <1>5, Zenon
<1>7. <<x, y, z>> \in Seq(0 .. 255)
  BY <1>4, ZenonT(90)
<1> QED  BY <1>6, <1>7

LEMMA KeptType ==
    ASSUME NEW kind, NEW byte \in Int
    PROVE  Cell(kind, Kept(kind, byte))
<1>1. byte % 256 \in 0 .. 255 /\ byte % 256 \in Int
  OBVIOUS
<1>2. SpiBits(byte % 256) \in Seq(0 .. 255)
  BY <1>1, BitsType
<1> QED  BY <1>1, <1>2 DEF Cell, Kept

LEMMA ZeroedType == ASSUME NEW kind PROVE Cell(kind, Zeroed(kind))
<1>1. 0 \in 0 .. 255
  OBVIOUS
<1>2. <<0, 0, 0>> \in Seq(0 .. 255)
  BY <1>1
<1> QED  BY <1>1, <1>2 DEF Cell, Zeroed

LEMMA HueType == ASSUME NEW h \in Hues PROVE HsvToRgb(h) \in Seq(Int)
<1>1. PICK hue \in Nat, s \in Nat, v \in Nat : hue = h.hue /\ s = h.saturation /\ v = h.value
  BY StripAssumption
<1>2. PICK low \in Int : low = (v * (255 - s)) \div 255
  <2>1. v * (255 - s) \in Int
    OBVIOUS
  <2> QED  BY <2>1
<1>3. PICK adj \in Int : adj = ((v - low) * (hue % 60)) \div 60
  <2>1. (v - low) * (hue % 60) \in Int
    OBVIOUS
  <2> QED  BY <2>1
<1>4. \A x, y, z \in Int : <<x, y, z>> \in Seq(Int)
  BY ONLY TRUE
<1>5. HsvToRgb(h) \in {<<v, low + adj, low>>, <<v - adj, v, low>>, <<low, v, low + adj>>,
                       <<low, v - adj, v>>, <<low + adj, low, v>>, <<v, low, v - adj>>}
  BY ONLY <1>1, <1>2, <1>3 DEF HsvToRgb
<1>6. low + adj \in Int /\ v - adj \in Int
  OBVIOUS
<1>7. /\ <<v, low + adj, low>> \in Seq(Int) /\ <<v - adj, v, low>> \in Seq(Int)
      /\ <<low, v, low + adj>> \in Seq(Int) /\ <<low, v - adj, v>> \in Seq(Int)
      /\ <<low + adj, low, v>> \in Seq(Int) /\ <<v, low, v - adj>> \in Seq(Int)
  BY <1>4, <1>6
<1> QED  BY <1>5, <1>7

LEMMA HueLen == ASSUME NEW h PROVE Len(HsvToRgb(h)) = 3
<1>1. \A x, y, z : Len(<<x, y, z>>) = 3
  OBVIOUS
<1> QED  BY <1>1 DEF HsvToRgb

LEMMA OrderType ==
    ASSUME NEW c \in Seq(Int), Len(c) \in {3, 4}, NEW k \in 1 .. 4
    PROVE  Order(c)[k] \in Int
<1>1. PICK w : w = IF Len(c) = 4 THEN c[4] ELSE 0
  OBVIOUS
<1>2. c[1] \in Int /\ c[2] \in Int /\ c[3] \in Int /\ w \in Int
  BY <1>1
<1>3. Order(c) = <<c[2], c[1], c[3], w>>
  BY <1>1 DEF Order
<1>4. k = 1 \/ k = 2 \/ k = 3 \/ k = 4
  OBVIOUS
<1> QED  BY <1>2, <1>3, <1>4

\* Whatever colour is asked for, bytes are stored.
LEMMA StoreCells ==
    ASSUME Shape, Cells, NEW i \in Int, NEW c \in Seq(Int), Len(c) \in {3, 4}, Store(i, c),
           UNCHANGED <<dev, bpp>>
    PROVE  Cells' /\ answer' \in {"ok", "invalid"}
<1>1. Len(buf) = dev.leds * bpp /\ dev.leds * bpp \in Nat /\ bpp \in {3, 4}
  BY LenBuf DEF Shape
<1>2. CASE buf' = buf
  BY <1>2 DEF Store, Cells
<1>3. CASE buf' # buf
  <2>1. buf' = [n \in 1 .. Len(buf) |->
                  IF n > i * bpp /\ n <= (i + 1) * bpp
                  THEN Kept(dev.kind, Order(c)[n - i * bpp]) ELSE buf[n]]
        /\ answer' = "ok"
    BY <1>3 DEF Store
  <2>2. ASSUME NEW n \in 1 .. dev.leds * bpp PROVE Cell(dev.kind, buf'[n])
    <3>1. CASE n > i * bpp /\ n <= (i + 1) * bpp
      <4>1. n - i * bpp \in 1 .. 4
        <5>1. CASE bpp = 3
          BY <1>1, <3>1, <5>1
        <5>2. CASE bpp = 4
          BY <1>1, <3>1, <5>2
        <5> QED  BY <1>1, <5>1, <5>2
      <4>2. Order(c)[n - i * bpp] \in Int
        BY <4>1, OrderType
      <4>3. Cell(dev.kind, Kept(dev.kind, Order(c)[n - i * bpp]))
        BY <4>2, KeptType
      <4>4. buf'[n] = Kept(dev.kind, Order(c)[n - i * bpp])
        BY <1>1, <2>1, <3>1
      <4> QED  BY <4>3, <4>4
    <3>2. CASE ~(n > i * bpp /\ n <= (i + 1) * bpp)
      <4>1. buf'[n] = buf[n]
        BY <1>1, <2>1, <3>2
      <4> QED  BY <4>1 DEF Cells
    <3> QED  BY <3>1, <3>2
  <2> QED  BY <2>1, <2>2 DEF Cells
<1> QED  BY <1>2, <1>3

LEMMA NextCells ==
    ASSUME Shape, Cells, [StripNext]_stripVars
    PROVE  Cells'
<1>1. ASSUME NEW kind \in {"rmt", "spi"}, NEW leds \in 1 .. Leds, Opened(kind, leds), UNCHANGED bpp
      PROVE  Cells'
  <2>1. /\ dev'.kind = kind /\ dev'.leds = leds
        /\ \A n \in 1 .. leds * bpp : buf'[n] = Zeroed(kind)
    BY <1>1 DEF Opened
  <2> QED  BY <1>1, <2>1, ZeroedType DEF Cells
<1>2. ASSUME UNCHANGED <<dev, buf, bpp>> PROVE Cells'
  BY <1>2 DEF Cells
<1>3. ASSUME dev' = NoStrip, UNCHANGED bpp PROVE Cells'
  <2>1. dev'.leds = 0 /\ 1 .. 0 * bpp' = {}
    BY <1>3 DEF NoStrip, Shape
  <2> QED  BY <2>1 DEF Cells
<1>4. ASSUME NEW kind \in {"rmt", "spi"}, NEW leds \in 1 .. Leds, New(kind, leds)
      PROVE  Cells'
  BY <1>1, <1>2, <1>4 DEF New
<1>5. CASE SetLedStripColorFirst
  <2>1. 1 \in 1 .. Leds
    BY StripAssumption
  <2> QED  BY <1>1, <1>3, <1>5, <2>1 DEF SetLedStripColorFirst, Restarted
<1>6. ASSUME NEW i \in Indices, NEW c \in Colours, SetPixel(i, c) \/ SetLedStripColor(i, c)
      PROVE  Cells'
  <2>1. i \in Int /\ c \in Seq(Int) /\ Len(c) \in {3, 4}
    BY StripAssumption
  <2> QED  BY <1>6, <2>1, StoreCells DEF SetPixel, SetLedStripColor
<1>7. ASSUME NEW i \in Indices, NEW h \in Hues, SetPixelHsv(i, h)
      PROVE  Cells'
  <2>1. i \in Int /\ HsvToRgb(h) \in Seq(Int) /\ Len(HsvToRgb(h)) \in {3, 4}
    BY StripAssumption, HueType, HueLen
  <2> QED  BY <1>7, <2>1, StoreCells DEF SetPixelHsv, SetPixel
<1>8. CASE Refresh
  BY <1>2, <1>8 DEF Refresh, RefreshAny
<1>9. CASE Clear
  <2>1. DOMAIN buf = 1 .. dev.leds * bpp
    BY DEF Shape
  <2>2. \A n \in 1 .. dev.leds * bpp : buf'[n] = Kept(dev.kind, 0)
    BY <1>9, <2>1 DEF Clear
  <2>3. UNCHANGED <<dev, bpp>> /\ Cell(dev.kind, Kept(dev.kind, 0))
    BY <1>9, KeptType DEF Clear, RefreshAny
  <2> QED  BY <2>2, <2>3 DEF Cells
<1>10. CASE StripDriver
  BY <1>2, <1>10 DEF StripDriver, Encode, SpiTransmit, RefreshReturn
<1>11. CASE Del
  BY <1>2, <1>3, <1>11 DEF Del
<1>12. CASE Restart
  BY <1>3, <1>12 DEF Restart, Restarted
<1>13. CASE UNCHANGED stripVars
  BY <1>2, <1>13 DEF stripVars
<1> QED  BY <1>4, <1>5, <1>6, <1>7, <1>8, <1>9, <1>10, <1>11, <1>12, <1>13 DEF StripNext

\* The encoder counts within the symbols of the strip.
LEMMA NextEnc ==
    ASSUME Shape, Sent, EncType, [StripNext]_stripVars
    PROVE  EncType'
<1>1. ASSUME UNCHANGED enc PROVE EncType'
  BY <1>1 DEF EncType
<1>2. ASSUME enc' = Reset PROVE EncType'
  BY <1>2 DEF EncType, Reset
<1>3. CASE Encode
  <2>1. Shape' /\ Sent'
    BY <1>3, NextSent DEF StripNext, StripDriver
  <2>2. /\ pc' \in {"wait", "sent"} /\ dev'.kind = "rmt"
        /\ enc' = Encoded(enc, IF enc.wire = 0 THEN Symbols ELSE Symbols \div 2)
    BY <1>3 DEF Encode
  <2>3. 8 * (dev'.leds * bpp') \in Nat
    BY <2>1, StripAssumption, SMTT(30) DEF Shape
  <2>4. enc'.wire \in Nat
    BY <2>1, <2>2, <2>3 DEF Sent
  <2>5. enc'.state \in {0, 1} /\ enc'.ret \in {"complete", "full"}
    BY <2>2 DEF Encoded, State
  <2>6. enc'.next \in Nat
    <3>1. (IF enc.wire = 0 THEN Symbols ELSE Symbols \div 2) \in Nat /\ enc.next \in Nat
      BY StripAssumption DEF EncType
    <3> QED  BY <2>2, <3>1 DEF Encoded
  <2>7. enc' = [next |-> enc'.next, wire |-> enc'.wire, state |-> enc'.state, ret |-> enc'.ret]
    BY <2>2 DEF Encoded
  <2> QED  BY <2>4, <2>5, <2>6, <2>7 DEF EncType
<1>4. CASE Refresh \/ Clear
  BY <1>1, <1>2, <1>4 DEF Refresh, Clear, RefreshAny, RmtRefresh, SpiRefresh
<1>5. CASE \E kind \in {"rmt", "spi"}, leds \in 1 .. Leds : New(kind, leds)
  BY <1>1, <1>5 DEF New
<1>6. CASE \E i \in Indices, c \in Colours : SetPixel(i, c) \/ SetLedStripColor(i, c)
  BY <1>1, <1>6 DEF SetPixel, SetLedStripColor
<1>7. CASE \E i \in Indices, h \in Hues : SetPixelHsv(i, h)
  BY <1>1, <1>7 DEF SetPixelHsv, SetPixel
<1>8. CASE SetLedStripColorFirst \/ SpiTransmit \/ RefreshReturn \/ Del \/ Restart
  BY <1>1, <1>8 DEF SetLedStripColorFirst, SpiTransmit, RefreshReturn, Del, Restart, Restarted
<1>9. CASE UNCHANGED stripVars
  BY <1>1, <1>9 DEF stripVars
<1> QED  BY <1>3, <1>4, <1>5, <1>6, <1>7, <1>8, <1>9 DEF StripNext, StripDriver

LEMMA PixelLen == ASSUME Shape, NEW cells PROVE Len(PixelOf(cells)) = bpp
<1>1. DOMAIN PixelOf(cells) = 1 .. bpp /\ PixelOf(cells) = [k \in 1 .. bpp |-> PixelOf(cells)[k]]
  <2>1. PICK p : p = [k \in 1 .. bpp |-> Byte(cells[k])]
    OBVIOUS
  <2>2. PixelOf(cells) = [p EXCEPT ![1] = p[2], ![2] = p[1]]
    BY <2>1 DEF PixelOf
  <2>3. DOMAIN p = 1 .. bpp
    BY <2>1
  <2> QED  BY <2>2, <2>3
<1>2. bpp \in Nat
  BY DEF Shape
<1> QED  BY <1>1, <1>2, LenIs

\* Whatever reaches the wire, every LED shows a colour of all components.
LEMMA LatchedType ==
    ASSUME Shape, LitType, UNCHANGED bpp, NEW cells, lit' = Latched(cells)
    PROVE  LitType'
<1> SUFFICES ASSUME NEW i \in 1 .. Leds PROVE Len(lit'[i]) = bpp
  BY DEF LitType
<1>1. lit'[i] = lit[i] \/ \E seen : lit'[i] = PixelOf(seen)
  BY DEF Latched
<1>2. \A seen : Len(PixelOf(seen)) = bpp
  BY PixelLen
<1> QED  BY <1>1, <1>2 DEF LitType

LEMMA NextLit ==
    ASSUME Shape, LitType, [StripNext]_stripVars
    PROVE  LitType'
<1>1. ASSUME UNCHANGED <<lit, bpp>> PROVE LitType'
  BY <1>1 DEF LitType
<1>2. CASE Encode \/ SpiTransmit
  <2>1. UNCHANGED bpp /\ (UNCHANGED lit \/ \E cells : lit' = Latched(cells))
    BY <1>2 DEF Encode, SpiTransmit
  <2> QED  BY <1>1, <2>1, LatchedType
<1>3. CASE Restart
  <2>1. UNCHANGED bpp
    BY <1>3 DEF Restart, Restarted
  <2>2. CASE \E cells : lit' = Latched(cells)
    BY <2>1, <2>2, LatchedType
  <2>3. CASE lit' = [i \in 1 .. Leds |-> [k \in 1 .. bpp |-> 0]]
    <3>1. Len([k \in 1 .. bpp |-> 0]) = bpp
      BY LenIs DEF Shape
    <3> QED  BY <2>1, <2>3, <3>1 DEF LitType
  <2> QED  BY <1>3, <2>2, <2>3 DEF Restart
<1>4. CASE Refresh \/ Clear
  BY <1>1, <1>4 DEF Refresh, Clear, RefreshAny
<1>5. CASE \E kind \in {"rmt", "spi"}, leds \in 1 .. Leds : New(kind, leds)
  BY <1>1, <1>5 DEF New
<1>6. CASE \E i \in Indices, c \in Colours : SetPixel(i, c) \/ SetLedStripColor(i, c)
  BY <1>1, <1>6 DEF SetPixel, SetLedStripColor
<1>7. CASE \E i \in Indices, h \in Hues : SetPixelHsv(i, h)
  BY <1>1, <1>7 DEF SetPixelHsv, SetPixel
<1>8. CASE SetLedStripColorFirst \/ RefreshReturn \/ Del
  BY <1>1, <1>8 DEF SetLedStripColorFirst, RefreshReturn, Del, Restarted
<1>9. CASE UNCHANGED stripVars
  BY <1>1, <1>9 DEF stripVars
<1> QED  BY <1>2, <1>3, <1>4, <1>5, <1>6, <1>7, <1>8, <1>9 DEF StripNext, StripDriver

LEMMA NextRest ==
    ASSUME Shape, RestType, [StripNext]_stripVars
    PROVE  RestType'
<1>1. ASSUME NEW kind \in {"rmt", "spi"}, NEW leds \in 1 .. Leds, Opened(kind, leds)
      PROVE  /\ dev' \in [kind : {"none", "rmt", "spi"}, leds : 0 .. Leds]
             /\ chan' \in {"none", "init", "enabled"}
  <2>1. leds \in 0 .. Leds
    BY StripAssumption
  <2> QED  BY <1>1, <2>1 DEF Opened
<1>2. NoStrip \in [kind : {"none", "rmt", "spi"}, leds : 0 .. Leds]
  BY StripAssumption DEF NoStrip
<1>3. Fault => faults' \in 0 .. MaxFaults
  <2>1. MaxFaults \in Nat
    BY StripAssumption
  <2>2. faults \in 0 .. MaxFaults
    BY DEF RestType
  <2> QED  BY <2>1, <2>2 DEF Fault
<1>4. ASSUME NEW kind \in {"rmt", "spi"}, NEW leds \in 1 .. Leds, New(kind, leds)
      PROVE  RestType'
  BY <1>1, <1>3, <1>4 DEF New, RestType
<1>5. CASE SetLedStripColorFirst
  <2>1. 1 \in 1 .. Leds
    BY StripAssumption
  <2> QED  BY <1>1, <1>2, <1>3, <1>5, <2>1 DEF SetLedStripColorFirst, Restarted, RestType
<1>6. ASSUME NEW i, NEW c, SetPixel(i, c) \/ SetLedStripColor(i, c)
      PROVE  RestType'
  BY <1>6 DEF SetPixel, SetLedStripColor, Store, RestType
<1>7. ASSUME NEW i \in Indices, NEW h \in Hues, SetPixelHsv(i, h)
      PROVE  RestType'
  BY <1>6, <1>7 DEF SetPixelHsv
<1>8. CASE Refresh \/ Clear
  BY <1>3, <1>8 DEF Refresh, Clear, RefreshAny, RmtRefresh, SpiRefresh, RestType
<1>9. CASE StripDriver
  BY <1>3, <1>9 DEF StripDriver, Encode, SpiTransmit, RefreshReturn, RestType
<1>10. CASE Del
  BY <1>2, <1>3, <1>10 DEF Del, RmtDel, SpiDel, RestType
<1>11. CASE Restart
  BY <1>2, <1>11 DEF Restart, Restarted, RestType
<1>12. CASE UNCHANGED stripVars
  BY <1>12, ZenonT(40) DEF stripVars, RestType
<1> QED  BY <1>4, <1>5, <1>6, <1>7, <1>8, <1>9, <1>10, <1>11, <1>12 DEF StripNext

\* The inductive invariant of the strip: its types, what it holds, and how far
\* the encoder has come.
StripInv == Owned /\ Shape /\ Sent /\ Cells /\ EncType /\ LitType /\ RestType

LEMMA InitStrip == StripInit => StripInv
<1> SUFFICES ASSUME StripInit PROVE StripInv
  OBVIOUS
<1>1. dev = NoStrip /\ dev.leds = 0 /\ dev.kind = "none" /\ buf = <<>> /\ Leds \in Nat
      /\ pc = "idle" /\ bpp \in {3, 4}
  BY StripAssumption DEF StripInit, NoStrip
<1>2. 0 * bpp = 0 /\ 1 .. 0 = {}
  BY <1>1
<1>3. buf = [n \in {} |-> buf[n]] /\ DOMAIN buf = {}
  BY <1>1
<1>4. Shape /\ Sent /\ Cells
  BY <1>1, <1>2, <1>3 DEF Shape, Sent, Cells
<1>5. LitType
  <2>1. Len([k \in 1 .. bpp |-> 0]) = bpp
    BY <1>1, LenIs
  <2> QED  BY <2>1 DEF StripInit, LitType
<1>6. EncType /\ Owned
  BY DEF StripInit, EncType, Reset, Owned, NoStrip
<1>7. RestType
  <2>1. MaxFaults \in Nat
    BY StripAssumption
  <2>2. faults \in 0 .. MaxFaults
    BY <2>1 DEF StripInit
  <2>3. dev \in [kind : {"none", "rmt", "spi"}, leds : 0 .. Leds]
    BY <1>1 DEF NoStrip
  <2> QED  BY <2>2, <2>3 DEF StripInit, RestType
<1> QED  BY <1>4, <1>5, <1>6, <1>7 DEF StripInv

LEMMA NextStrip == StripInv /\ [StripNext]_stripVars => StripInv'
BY NextOwned, NextSent, NextCells, NextEnc, NextLit, NextRest DEF StripInv

LEMMA StripTyped == StripInv => StripTypeOK
<1> SUFFICES ASSUME StripInv PROVE StripTypeOK
  OBVIOUS
<1>1. held \subseteq {"object", "channel", "bus", "device"} \cup EncoderParts
  BY DEF StripInv, Owned, RestType, RmtParts, SpiParts
<1>2. Len(buf) = dev.leds * bpp
  BY LenBuf DEF StripInv
<1> QED  BY <1>1, <1>2, ZenonT(40) DEF StripInv, Shape, Cells, Cell, EncType, LitType, RestType, StripTypeOK

\* For strips of any length and any colours and indices, the variables of the
\* strip have their types: what is stored are bytes, and as many as the strip
\* has components (led_strip_rmt_dev.c, led_strip_spi_dev.c).
THEOREM StripTypeCorrect == StripSpec => []StripTypeOK
BY InitStrip, NextStrip, StripTyped, PTL DEF StripSpec

-----------------------------------------------------------------------------
(* The codes of the SPI.                                                   *)

\* Eight bits make a byte.
LEMMA BitsOf ==
    ASSUME NEW d \in 0 .. 255
    PROVE  d = ((d \div 1) % 2) + 2 * ((d \div 2) % 2) + 4 * ((d \div 4) % 2) + 8 * ((d \div 8) % 2)
                 + 16 * ((d \div 16) % 2) + 32 * ((d \div 32) % 2) + 64 * ((d \div 64) % 2)
                 + 128 * ((d \div 128) % 2)
<1>1. d = ((d \div 1) % 2) + 2 * (d \div 2)
  OBVIOUS
<1>2. d \div 2 = ((d \div 2) % 2) + 2 * (d \div 4)
  OBVIOUS
<1>3. d \div 4 = ((d \div 4) % 2) + 2 * (d \div 8)
  OBVIOUS
<1>4. d \div 8 = ((d \div 8) % 2) + 2 * (d \div 16)
  OBVIOUS
<1>5. d \div 16 = ((d \div 16) % 2) + 2 * (d \div 32)
  OBVIOUS
<1>6. d \div 32 = ((d \div 32) % 2) + 2 * (d \div 64)
  OBVIOUS
<1>7. d \div 64 = ((d \div 64) % 2) + 2 * (d \div 128)
  OBVIOUS
<1>8. d \div 128 = (d \div 128) % 2
  OBVIOUS
<1> QED  BY <1>1, <1>2, <1>3, <1>4, <1>5, <1>6, <1>7, <1>8

\* Eight bits in groups of three: 100 for a 0 and 110 for a 1.
LEMMA CodeOf ==
    ASSUME NEW d \in 0 .. 255
    PROVE  SpiBits(d) \in Legible /\ Reading(SpiBits(d)) = d
<1> DEFINE bit(k) == (d \div 2^k) % 2
<1>1. /\ 2^0 = 1 /\ 2^1 = 2 /\ 2^2 = 4 /\ 2^3 = 8 /\ 2^4 = 16 /\ 2^5 = 32 /\ 2^6 = 64 /\ 2^7 = 128
  BY SMTT(30)
<1>2. /\ bit(0) \in {0, 1} /\ bit(1) \in {0, 1} /\ bit(2) \in {0, 1} /\ bit(3) \in {0, 1}
      /\ bit(4) \in {0, 1} /\ bit(5) \in {0, 1} /\ bit(6) \in {0, 1} /\ bit(7) \in {0, 1}
  <2>1. /\ (d \div 1) % 2 \in {0, 1} /\ (d \div 2) % 2 \in {0, 1} /\ (d \div 4) % 2 \in {0, 1}
        /\ (d \div 8) % 2 \in {0, 1} /\ (d \div 16) % 2 \in {0, 1} /\ (d \div 32) % 2 \in {0, 1}
        /\ (d \div 64) % 2 \in {0, 1} /\ (d \div 128) % 2 \in {0, 1}
    OBVIOUS
  <2> QED  BY <1>1, <2>1
<1>3. d = bit(0) + 2 * bit(1) + 4 * bit(2) + 8 * bit(3) + 16 * bit(4) + 32 * bit(5)
            + 64 * bit(6) + 128 * bit(7)
  BY <1>1, BitsOf, SMTT(30)
<1>4. SpiBits(d) = <<128 + 64 * bit(7) + 16 + 8 * bit(6) + 2 + bit(5),
                     64 + 32 * bit(4) + 8 + 4 * bit(3) + 1,
                     128 * bit(2) + 32 + 16 * bit(1) + 4 + 2 * bit(0)>>
  BY DEF SpiBits
<1> HIDE DEF bit
<1>5. PICK b0 \in {0, 1}, b1 \in {0, 1}, b2 \in {0, 1}, b3 \in {0, 1},
           b4 \in {0, 1}, b5 \in {0, 1}, b6 \in {0, 1}, b7 \in {0, 1} :
        /\ b0 = bit(0) /\ b1 = bit(1) /\ b2 = bit(2) /\ b3 = bit(3)
        /\ b4 = bit(4) /\ b5 = bit(5) /\ b6 = bit(6) /\ b7 = bit(7)
  BY <1>2
<1>6. PICK x \in Nat, y \in Nat, z \in Nat :
        /\ x = 128 + 64 * b7 + 16 + 8 * b6 + 2 + b5
        /\ y = 64 + 32 * b4 + 8 + 4 * b3 + 1
        /\ z = 128 * b2 + 32 + 16 * b1 + 4 + 2 * b0
  OBVIOUS
<1>7. SpiBits(d) = <<x, y, z>>
  BY <1>4, <1>5, <1>6
<1> DEFINE cell == SpiBits(d)
<1>8. cell[1] = x /\ cell[2] = y /\ cell[3] = z
  BY <1>7
<1> HIDE DEF cell
<1> DEFINE g0 == 4 + 2 * b0
           g1 == 4 + 2 * b1
           g2 == 4 + 2 * b2
           g3 == 4 + 2 * b3
           g4 == 4 + 2 * b4
           g5 == 4 + 2 * b5
           g6 == 4 + 2 * b6
           g7 == 4 + 2 * b7
<1>9. /\ g0 = 4 + 2 * b0 /\ g1 = 4 + 2 * b1 /\ g2 = 4 + 2 * b2 /\ g3 = 4 + 2 * b3
      /\ g4 = 4 + 2 * b4 /\ g5 = 4 + 2 * b5 /\ g6 = 4 + 2 * b6 /\ g7 = 4 + 2 * b7
      /\ g0 \in 0 .. 7 /\ g1 \in 0 .. 7 /\ g2 \in 0 .. 7 /\ g3 \in 0 .. 7
      /\ g4 \in 0 .. 7 /\ g5 \in 0 .. 7 /\ g6 \in 0 .. 7 /\ g7 \in 0 .. 7
  OBVIOUS
<1> HIDE DEF g0, g1, g2, g3, g4, g5, g6, g7
<1>10. PICK sum \in Nat :
         /\ sum = x * 65536 + y * 256 + z
         /\ sum = g0 + 8 * g1 + 64 * g2 + 512 * g3 + 4096 * g4 + 32768 * g5
                    + 262144 * g6 + 2097152 * g7
  BY <1>6, <1>9
<1>11. /\ (sum \div 1) % 8 = g0 /\ (sum \div 8) % 8 = g1
       /\ (sum \div 64) % 8 = g2 /\ (sum \div 512) % 8 = g3
       /\ (sum \div 4096) % 8 = g4 /\ (sum \div 32768) % 8 = g5
       /\ (sum \div 262144) % 8 = g6 /\ (sum \div 2097152) % 8 = g7
  <2>0. \A g \in 0 .. 7, r \in Nat : (g + 8 * r) % 8 = g
    OBVIOUS
  <2>1. (sum \div 1) % 8 = g0
    BY <1>9, <1>10
  <2>2. (sum \div 8) % 8 = g1
    <3>1. sum \div 8 = g1 + 8 * (g2 + 8 * g3 + 64 * g4 + 512 * g5 + 4096 * g6 + 32768 * g7)
      BY <1>9, <1>10
    <3> QED  BY <1>9, <3>1, <2>0
  <2>3. (sum \div 64) % 8 = g2
    <3>1. sum \div 64 = g2 + 8 * (g3 + 8 * g4 + 64 * g5 + 512 * g6 + 4096 * g7)
      BY <1>9, <1>10
    <3> QED  BY <1>9, <3>1, <2>0
  <2>4. (sum \div 512) % 8 = g3
    <3>1. sum \div 512 = g3 + 8 * (g4 + 8 * g5 + 64 * g6 + 512 * g7)
      BY <1>9, <1>10
    <3> QED  BY <1>9, <3>1, <2>0
  <2>5. (sum \div 4096) % 8 = g4
    <3>1. sum \div 4096 = g4 + 8 * (g5 + 8 * g6 + 64 * g7)
      BY <1>9, <1>10
    <3> QED  BY <1>9, <3>1, <2>0
  <2>6. (sum \div 32768) % 8 = g5
    <3>1. sum \div 32768 = g5 + 8 * (g6 + 8 * g7)
      BY <1>9, <1>10
    <3> QED  BY <1>9, <3>1, <2>0
  <2>7. (sum \div 262144) % 8 = g6
    <3>1. sum \div 262144 = g6 + 8 * g7
      BY <1>9, <1>10
    <3> QED  BY <1>9, <3>1, <2>0
  <2>8. (sum \div 2097152) % 8 = g7
    <3>1. sum \div 2097152 = g7
      BY <1>9, <1>10
    <3> QED  BY <1>9, <3>1
  <2> QED  BY <2>1, <2>2, <2>3, <2>4, <2>5, <2>6, <2>7, <2>8
<1>12. \A k : Group(cell, k) = (sum \div 8^k) % 8
  BY <1>8, <1>10 DEF Group
<1>13. /\ Group(cell, 0) = g0 /\ Group(cell, 1) = g1 /\ Group(cell, 2) = g2
       /\ Group(cell, 3) = g3 /\ Group(cell, 4) = g4 /\ Group(cell, 5) = g5
       /\ Group(cell, 6) = g6 /\ Group(cell, 7) = g7
  <2>1. /\ 8^0 = 1 /\ 8^1 = 8 /\ 8^2 = 64 /\ 8^3 = 512 /\ 8^4 = 4096 /\ 8^5 = 32768
        /\ 8^6 = 262144 /\ 8^7 = 2097152
    OBVIOUS
  <2>2. /\ Group(cell, 0) = (sum \div 8^0) % 8 /\ Group(cell, 1) = (sum \div 8^1) % 8
        /\ Group(cell, 2) = (sum \div 8^2) % 8 /\ Group(cell, 3) = (sum \div 8^3) % 8
        /\ Group(cell, 4) = (sum \div 8^4) % 8 /\ Group(cell, 5) = (sum \div 8^5) % 8
        /\ Group(cell, 6) = (sum \div 8^6) % 8 /\ Group(cell, 7) = (sum \div 8^7) % 8
    BY <1>12, Zenon
  <2>3. /\ Group(cell, 0) = (sum \div 1) % 8 /\ Group(cell, 1) = (sum \div 8) % 8
        /\ Group(cell, 2) = (sum \div 64) % 8 /\ Group(cell, 3) = (sum \div 512) % 8
        /\ Group(cell, 4) = (sum \div 4096) % 8 /\ Group(cell, 5) = (sum \div 32768) % 8
        /\ Group(cell, 6) = (sum \div 262144) % 8 /\ Group(cell, 7) = (sum \div 2097152) % 8
    BY <2>1, <2>2
  <2> QED  BY <1>11, <2>3
<1>14. \A k \in 0 .. 7 : Group(cell, k) \in {4, 6}
  <2>1. \A k \in 0 .. 7 : k = 0 \/ k = 1 \/ k = 2 \/ k = 3 \/ k = 4 \/ k = 5 \/ k = 6 \/ k = 7
    OBVIOUS
  <2>2. /\ g0 \in {4, 6} /\ g1 \in {4, 6} /\ g2 \in {4, 6} /\ g3 \in {4, 6}
        /\ g4 \in {4, 6} /\ g5 \in {4, 6} /\ g6 \in {4, 6} /\ g7 \in {4, 6}
    BY <1>9
  <2> QED  BY <1>13, <2>1, <2>2
<1>15. cell \in Legible
  BY <1>14 DEF Legible, cell
<1>16. Reading(cell) = b0 + 2 * b1 + 4 * b2 + 8 * b3 + 16 * b4 + 32 * b5 + 64 * b6 + 128 * b7
  <2>1. /\ (g0 \div 2) % 2 = b0 /\ (g1 \div 2) % 2 = b1 /\ (g2 \div 2) % 2 = b2
        /\ (g3 \div 2) % 2 = b3 /\ (g4 \div 2) % 2 = b4 /\ (g5 \div 2) % 2 = b5
        /\ (g6 \div 2) % 2 = b6 /\ (g7 \div 2) % 2 = b7
    BY <1>9
  <2> QED  BY <1>13, <2>1 DEF Reading
<1> QED  BY <1>3, <1>5, <1>15, <1>16 DEF cell

LEMMA ZeroIsNoCode == <<0, 0, 0>> \notin Legible
<1> DEFINE z == <<0, 0, 0>>
<1>1. z[1] = 0 /\ z[2] = 0 /\ z[3] = 0 /\ 8^0 = 1
  OBVIOUS
<1>2. Group(z, 0) = 0
  <2>1. Group(z, 0) = ((z[1] * 65536 + z[2] * 256 + z[3]) \div 8^0) % 8
    BY DEF Group
  <2> HIDE DEF z
  <2>2. z[1] * 65536 + z[2] * 256 + z[3] = 0
    BY <1>1
  <2> QED  BY <2>1, <2>2, <1>1
<1>3. 0 \in 0 .. 7 /\ 0 \notin {4, 6}
  OBVIOUS
<1> HIDE DEF z
<1>4. z \notin Legible
  BY <1>2, <1>3 DEF Legible
<1> QED  BY <1>4 DEF z

-----------------------------------------------------------------------------
(* What is kept of the colours, read back.                                 *)

\* A cell that holds a colour byte, and the byte.
Fine(kind, x) == kind = "spi" => x \in Legible
ByteOf(kind, x) == IF kind = "spi" THEN Reading(x) ELSE x

\* The colours of the strip, from the cells of its buffer.
Place(k) == IF k = 1 THEN 2 ELSE IF k = 2 THEN 1 ELSE k
FineAt(kind, n, b, i) == \A k \in 1 .. n : Fine(kind, b[(i - 1) * n + k])
ReadAt(kind, n, b, i) == [k \in 1 .. n |-> ByteOf(kind, b[(i - 1) * n + Place(k)])]
ReadBack(kind, leds, n, b) ==
    [i \in 1 .. Leds |-> IF i <= leds /\ FineAt(kind, n, b, i) THEN ReadAt(kind, n, b, i) ELSE Unset]

LEMMA FineReads ==
    ASSUME NEW x, IsByte(x)
    PROVE  Byte(x) = ByteOf(dev.kind, x)
BY DEF IsByte, Byte, ByteAt, ByteOf

LEMMA PixelReads ==
    ASSUME bpp \in {3, 4}, NEW cells, \A k \in 1 .. bpp : IsByte(cells[k])
    PROVE  PixelOf(cells) = [k \in 1 .. bpp |-> ByteOf(dev.kind, cells[Place(k)])]
<1> DEFINE p == [k \in 1 .. bpp |-> Byte(cells[k])]
<1>1. PixelOf(cells) = [p EXCEPT ![1] = p[2], ![2] = p[1]]
  BY DEF PixelOf
<1>2. 1 \in 1 .. bpp /\ 2 \in 1 .. bpp
  OBVIOUS
<1>3. \A k \in 1 .. bpp : p[k] = ByteOf(dev.kind, cells[k])
  BY FineReads
<1>4. DOMAIN p = 1 .. bpp
  OBVIOUS
<1> HIDE DEF p
<1>5. [p EXCEPT ![1] = p[2], ![2] = p[1]]
        = [k \in 1 .. bpp |-> IF k = 2 THEN p[1] ELSE IF k = 1 THEN p[2] ELSE p[k]]
  BY <1>2, <1>4
<1>6. \A k \in 1 .. bpp : (IF k = 2 THEN p[1] ELSE IF k = 1 THEN p[2] ELSE p[k])
                            = ByteOf(dev.kind, cells[Place(k)])
  BY <1>2, <1>3 DEF Place
<1> QED  BY <1>1, <1>5, <1>6

LEMMA PixelAtReads ==
    ASSUME bpp \in {3, 4}, NEW cells, NEW i, \A k \in 1 .. bpp : IsByte(cells[(i - 1) * bpp + k])
    PROVE  PixelAt(cells, i) = ReadAt(dev.kind, bpp, cells, i)
<1> DEFINE q == [k \in 1 .. bpp |-> cells[(i - 1) * bpp + k]]
<1>1. \A k \in 1 .. bpp : Place(k) \in 1 .. bpp
  BY DEF Place
<1>2. \A k \in 1 .. bpp : q[k] = cells[(i - 1) * bpp + k]
  OBVIOUS
<1>3. PixelAt(cells, i) = PixelOf(q)
  BY DEF PixelAt
<1> HIDE DEF q
<1>4. PixelOf(q) = [k \in 1 .. bpp |-> ByteOf(dev.kind, q[Place(k)])]
  BY <1>2, PixelReads
<1>5. \A k \in 1 .. bpp : q[Place(k)] = cells[(i - 1) * bpp + Place(k)]
  BY <1>1, <1>2
<1> QED  BY <1>3, <1>4, <1>5 DEF ReadAt

LEMMA PixReads ==
    /\ bpp \in {3, 4} => pix = ReadBack(dev.kind, dev.leds, bpp, buf)
    /\ bpp' \in {3, 4} => pix' = ReadBack(dev'.kind, dev'.leds, bpp', buf')
<1>1. bpp \in {3, 4} => pix = ReadBack(dev.kind, dev.leds, bpp, buf)
  <2> SUFFICES ASSUME bpp \in {3, 4} PROVE pix = ReadBack(dev.kind, dev.leds, bpp, buf)
    OBVIOUS
  <2>1. ASSUME NEW i \in 1 .. Leds
        PROVE  (IF i <= dev.leds /\ \A k \in 1 .. bpp : IsByte(buf[(i - 1) * bpp + k])
                THEN PixelAt(buf, i) ELSE Unset)
                 = IF i <= dev.leds /\ FineAt(dev.kind, bpp, buf, i)
                   THEN ReadAt(dev.kind, bpp, buf, i) ELSE Unset
    BY PixelAtReads DEF FineAt, Fine, IsByte
  <2> QED  BY <2>1 DEF pix, ReadBack
<1> DEFINE Reads == bpp \in {3, 4} => pix = ReadBack(dev.kind, dev.leds, bpp, buf)
<1>2. Reads
  BY <1>1
<1> HIDE DEF Reads
<1>3. Reads'
  BY <1>2, PTL
<1>4. bpp' \in {3, 4} => pix' = ReadBack(dev'.kind, dev'.leds, bpp', buf')
  BY <1>3 DEF Reads, ReadBack, FineAt, ReadAt, Fine, ByteOf
<1> QED  BY <1>1, <1>4

LEMMA KeptReads ==
    ASSUME NEW kind, NEW byte \in Int
    PROVE  Fine(kind, Kept(kind, byte)) /\ ByteOf(kind, Kept(kind, byte)) = byte % 256
<1>1. byte % 256 \in 0 .. 255
  OBVIOUS
<1> QED  BY <1>1, CodeOf DEF Fine, ByteOf, Kept

\* Zeroed memory is dark for the RMT and no colour yet for the SPI.
LEMMA ZeroedReads ==
    /\ ByteOf("rmt", Zeroed("rmt")) = 0
    /\ ~Fine("spi", Zeroed("spi"))
BY ZeroIsNoCode DEF ByteOf, Fine, Zeroed

\* Every byte that is read is one.
LEMMA ReadType ==
    ASSUME NEW kind, NEW x, Cell(kind, x), Fine(kind, x)
    PROVE  ByteOf(kind, x) \in 0 .. 255
<1>1. CASE kind = "spi"
  <2>1. PICK d \in 0 .. 255 : x = SpiBits(d)
    BY <1>1 DEF Fine, Legible
  <2> QED  BY <1>1, <2>1, CodeOf DEF ByteOf
<1>2. CASE kind # "spi"
  BY <1>2 DEF ByteOf, Cell
<1> QED  BY <1>1, <1>2

-----------------------------------------------------------------------------
(* What the LEDs take.                                                     *)

LEMMA CountTo == ASSUME NEW n \in Nat PROVE IsFiniteSet(1 .. n) /\ Cardinality(1 .. n) = n
<1>1. 1 \in Int /\ n \in Int
  OBVIOUS
<1> QED  BY <1>1, FS_Interval

\* As long as every cell is a colour byte, the n-th of these is the n-th cell.
LEMMA NthIs ==
    ASSUME NEW size \in Nat, NEW codes \in SUBSET (1 .. size),
           NEW count \in Nat, 1 .. count \subseteq codes, NEW n \in 1 .. count
    PROVE  Nth(codes, n) = n
<1> DEFINE upto(m) == {k \in codes : k <= m}
<1>1. /\ n \in Nat /\ \A k \in 1 .. count : k \in codes
      /\ \A k \in codes : k \in Nat /\ k >= 1 /\ k <= size
  OBVIOUS
<1>2. ASSUME NEW m \in Nat, m <= count PROVE upto(m) = 1 .. m
  <2>1. ASSUME NEW k \in upto(m) PROVE k \in 1 .. m
    BY <1>1, <1>2
  <2>2. ASSUME NEW k \in 1 .. m PROVE k \in upto(m)
    BY <1>1, <1>2
  <2> QED  BY <2>1, <2>2
<1>3. Cardinality(upto(n)) = n
  <2>1. n <= count
    OBVIOUS
  <2>2. upto(n) = 1 .. n
    BY <1>1, <1>2, <2>1
  <2> QED  BY <1>1, <2>2, CountTo
<1>4. ASSUME NEW m \in codes, Cardinality(upto(m)) = n
      PROVE  m = n
  <2>1. CASE m <= count
    <3>1. upto(m) = 1 .. m /\ m \in Nat
      BY <1>1, <1>2, <2>1
    <3> QED  BY <1>4, <3>1, CountTo
  <2>2. CASE m > count
    <3>1. m \in Nat /\ n <= count
      BY <1>1
    <3>2. (1 .. count) \cup {m} \subseteq upto(m) /\ upto(m) \subseteq 1 .. size
      <4>1. \A k \in 1 .. count : k \in codes /\ k <= m
        BY <1>1, <2>2, <3>1
      <4>2. m <= m
        BY <3>1
      <4> QED  BY <4>1, <4>2
    <3>3. IsFiniteSet(upto(m)) /\ Cardinality(upto(m)) \in Nat
      <4> HIDE DEF upto
      <4>1. IsFiniteSet(1 .. size)
        BY CountTo
      <4>2. IsFiniteSet(upto(m))
        BY <3>2, <4>1, FS_Subset
      <4> QED  BY <4>2, FS_CardinalityType
    <3>4. Cardinality((1 .. count) \cup {m}) = count + 1
      <4>1. m \notin 1 .. count
        BY <2>2, <3>1
      <4>2. IsFiniteSet(1 .. count) /\ Cardinality(1 .. count) = count
        BY CountTo
      <4>3. Cardinality((1 .. count) \cup {m})
              = IF m \in 1 .. count THEN Cardinality(1 .. count) ELSE Cardinality(1 .. count) + 1
        BY <4>2, FS_AddElement
      <4> QED  BY <4>1, <4>2, <4>3
    <3>5. count + 1 <= Cardinality(upto(m))
      <4> HIDE DEF upto
      <4>1. Cardinality((1 .. count) \cup {m}) <= Cardinality(upto(m))
        BY <3>2, <3>3, FS_Subset
      <4> QED  BY <3>4, <4>1
    <3> QED  BY <1>4, <3>1, <3>3, <3>5
  <2> QED  BY <1>1, <2>1, <2>2
<1>5. n \in codes
  OBVIOUS
<1> QED  BY <1>3, <1>4, <1>5 DEF Nth

LEMMA LatchedIs ==
    ASSUME bpp \in {3, 4}, NEW cells, Len(cells) \in Nat, NEW i \in 1 .. Leds
    PROVE  /\ i * bpp > Len(cells) => Latched(cells)[i] = lit[i]
           /\ i * bpp <= Len(cells) /\ (\A m \in 1 .. i * bpp : IsByte(cells[m])) =>
                Latched(cells)[i] = ReadAt(dev.kind, bpp, cells, i)
<1> DEFINE codes == Codes(cells)
           taken == [k \in 1 .. bpp |-> cells[Nth(codes, (i - 1) * bpp + k)]]
<1>1. Latched(cells)[i] = IF i * bpp > Cardinality(codes) THEN lit[i] ELSE PixelOf(taken)
  BY DEF Latched
<1>2. codes \subseteq 1 .. Len(cells) /\ IsFiniteSet(codes) /\ Cardinality(codes) <= Len(cells)
      /\ Cardinality(codes) \in Nat
  <2>1. codes \subseteq 1 .. Len(cells)
    BY DEF Codes
  <2> HIDE DEF codes
  <2>2. IsFiniteSet(1 .. Len(cells)) /\ Cardinality(1 .. Len(cells)) = Len(cells)
    BY CountTo
  <2>3. IsFiniteSet(codes) /\ Cardinality(codes) <= Cardinality(1 .. Len(cells))
    BY <2>1, <2>2, FS_Subset
  <2>4. Cardinality(codes) \in Nat
    BY <2>3, FS_CardinalityType
  <2> QED  BY <2>1, <2>2, <2>3, <2>4
<1>3. i * bpp \in Nat /\ i \in Nat
  <2>1. Leds \in Nat
    BY StripAssumption
  <2>2. i \in Nat
    BY <2>1
  <2>3. 3 * i \in Nat /\ 4 * i \in Nat
    BY <2>2
  <2> QED  BY <2>2, <2>3
<1>4. CASE i * bpp > Len(cells)
  <2>1. i * bpp > Cardinality(codes)
    BY <1>2, <1>3, <1>4
  <2> QED  BY <1>1, <1>3, <1>4, <2>1
<1>5. CASE i * bpp <= Len(cells) /\ \A m \in 1 .. i * bpp : IsByte(cells[m])
  <2>1. 1 .. i * bpp \subseteq codes
    BY <1>3, <1>5 DEF Codes
  <2>2. i * bpp <= Cardinality(codes)
    <3> HIDE DEF codes
    <3> QED  BY <1>2, <1>3, <2>1, CountTo, FS_Subset
  <2>3. Latched(cells)[i] = PixelOf(taken)
    BY <1>1, <1>2, <1>3, <2>2
  <2>4. ASSUME NEW k \in 1 .. bpp PROVE (i - 1) * bpp + k \in 1 .. i * bpp
    <3>1. CASE bpp = 3
      BY <1>3, <3>1
    <3>2. CASE bpp = 4
      BY <1>3, <3>2
    <3> QED  BY <3>1, <3>2
  <2>5. \A k \in 1 .. bpp : Nth(codes, (i - 1) * bpp + k) = (i - 1) * bpp + k
    <3> HIDE DEF codes
    <3> QED  BY <1>2, <1>3, <2>1, <2>4, NthIs
  <2>6. \A k \in 1 .. bpp : taken[k] = cells[(i - 1) * bpp + k]
    BY <2>5
  <2>7. /\ \A k \in 1 .. bpp : IsByte(taken[k])
        /\ \A k \in 1 .. bpp : Place(k) \in 1 .. bpp
    <3>1. \A k \in 1 .. bpp : IsByte(cells[(i - 1) * bpp + k])
      BY <1>5, <2>4
    <3>2. \A k \in 1 .. bpp : Place(k) \in 1 .. bpp
      BY DEF Place
    <3> HIDE DEF taken
    <3>3. \A k \in 1 .. bpp : IsByte(taken[k])
      BY <3>1, <2>6
    <3> QED  BY <3>2, <3>3
  <2> HIDE DEF taken
  <2>8. PixelOf(taken) = [k \in 1 .. bpp |-> ByteOf(dev.kind, taken[Place(k)])]
    BY <2>7, PixelReads
  <2>9. \A k \in 1 .. bpp : taken[Place(k)] = cells[(i - 1) * bpp + Place(k)]
    BY <2>6, <2>7
  <2> QED  BY <2>3, <2>8, <2>9, <1>3, <1>5 DEF ReadAt
<1> QED  BY <1>4, <1>5

\* A pixel is not Unset.
LEMMA PixelIsSet ==
    ASSUME NEW n \in {3, 4}, NEW p \in [1 .. n -> 0 .. 255]
    PROVE  p # Unset
<1>1. Unset \notin [1 .. n -> 0 .. 255]
  BY UnsetAssumption, ZenonT(40)
<1> QED  BY <1>1, Zenon

\* The i-th colour of the cells is v, and the others are as they were.
Paints(kind, n, leds, i, v, b, painted) ==
    \A m \in 1 .. leds * n :
      painted[m] = IF m > (i - 1) * n /\ m <= i * n THEN Kept(kind, v[m - (i - 1) * n]) ELSE b[m]

ReadsPainted(kind, n, leds, i, v, b, painted) ==
    /\ ReadBack(kind, leds, n, painted)[i] = [k \in 1 .. n |-> v[Place(k)] % 256]
    /\ \A j \in 1 .. Leds \ {i} : ReadBack(kind, leds, n, painted)[j] = ReadBack(kind, leds, n, b)[j]

LEMMA Painted ==
    ASSUME NEW kind, NEW n \in {3, 4}, NEW leds \in 0 .. Leds, NEW i \in 1 .. leds,
           NEW v \in [1 .. 4 -> Int], NEW b, NEW painted, Paints(kind, n, leds, i, v, b, painted)
    PROVE  ReadsPainted(kind, n, leds, i, v, b, painted)
<1>1. Leds \in Nat /\ leds \in Nat /\ leds <= Leds /\ i \in Nat /\ i \in 1 .. Leds /\ i <= leds
  BY StripAssumption
<1>2. ASSUME NEW j \in 1 .. Leds, j <= leds, NEW k \in 1 .. n
      PROVE  /\ (j - 1) * n + k \in 1 .. leds * n
             /\ ((j - 1) * n + k > (i - 1) * n /\ (j - 1) * n + k <= i * n) <=> j = i
             /\ j = i => (j - 1) * n + k - (i - 1) * n = k
  <2>1. j \in Nat /\ j >= 1 /\ k \in Nat /\ k >= 1 /\ k <= n
    BY <1>1
  <2>2. CASE n = 3
    BY <1>1, <1>2, <2>1, <2>2
  <2>3. CASE n = 4
    BY <1>1, <1>2, <2>1, <2>3
  <2> QED  BY <2>2, <2>3
<1>3. \A k \in 1 .. n : Place(k) \in 1 .. n /\ k \in 1 .. 4
  BY DEF Place
<1>4. \A k \in 1 .. n : painted[(i - 1) * n + k] = Kept(kind, v[k])
  <2> SUFFICES ASSUME NEW k \in 1 .. n PROVE painted[(i - 1) * n + k] = Kept(kind, v[k])
    OBVIOUS
  <2> DEFINE m == (i - 1) * n + k
  <2>1. m \in 1 .. leds * n /\ m > (i - 1) * n /\ m <= i * n /\ m - (i - 1) * n = k
    BY <1>1, <1>2
  <2> HIDE DEF m
  <2>2. painted[m] = Kept(kind, v[m - (i - 1) * n])
    BY <2>1 DEF Paints
  <2>3. painted[m] = Kept(kind, v[k])
    BY <2>1, <2>2
  <2> QED  BY <2>3 DEF m
<1>5. \A k \in 1 .. n : Fine(kind, Kept(kind, v[k])) /\ ByteOf(kind, Kept(kind, v[k])) = v[k] % 256
  BY <1>3, KeptReads
<1>6. ReadBack(kind, leds, n, painted)[i] = [k \in 1 .. n |-> v[Place(k)] % 256]
  <2>1. FineAt(kind, n, painted, i)
    BY <1>4, <1>5 DEF FineAt
  <2>2. \A k \in 1 .. n : ByteOf(kind, painted[(i - 1) * n + Place(k)]) = v[Place(k)] % 256
    BY <1>3, <1>4, <1>5
  <2>3. ReadAt(kind, n, painted, i) = [k \in 1 .. n |-> v[Place(k)] % 256]
    <3>1. ReadAt(kind, n, painted, i)
            = [k \in 1 .. n |-> ByteOf(kind, painted[(i - 1) * n + Place(k)])]
      BY Zenon DEF ReadAt
    <3> QED  BY <2>2, <3>1, ZenonT(40)
  <2> QED  BY <1>1, <2>1, <2>3 DEF ReadBack
<1>7. ASSUME NEW j \in 1 .. Leds \ {i}
      PROVE  ReadBack(kind, leds, n, painted)[j] = ReadBack(kind, leds, n, b)[j]
  <2>1. CASE j <= leds
    <3>1. \A k \in 1 .. n : painted[(j - 1) * n + k] = b[(j - 1) * n + k]
      <4> SUFFICES ASSUME NEW k \in 1 .. n PROVE painted[(j - 1) * n + k] = b[(j - 1) * n + k]
        OBVIOUS
      <4> DEFINE m == (j - 1) * n + k
      <4>1. m \in 1 .. leds * n /\ ~(m > (i - 1) * n /\ m <= i * n)
        BY <1>2, <2>1
      <4> HIDE DEF m
      <4>2. painted[m] = b[m]
        BY <4>1 DEF Paints
      <4> QED  BY <4>2 DEF m
    <3>2. FineAt(kind, n, painted, j) <=> FineAt(kind, n, b, j)
      BY <3>1 DEF FineAt
    <3>3. \A k \in 1 .. n : painted[(j - 1) * n + Place(k)] = b[(j - 1) * n + Place(k)]
      BY <1>3, <3>1
    <3>4. ReadAt(kind, n, painted, j) = ReadAt(kind, n, b, j)
      BY <3>3 DEF ReadAt
    <3> QED  BY <3>2, <3>4 DEF ReadBack
  <2>2. CASE ~(j <= leds)
    BY <2>2 DEF ReadBack
  <2> QED  BY <2>1, <2>2
<1> QED  BY <1>6, <1>7 DEF ReadsPainted

\* set_pixel and set_pixel_rgbw keep the colour asked for, or refuse it.
LEMMA StorePaints ==
    ASSUME Shape, NEW i \in Int, NEW c \in Seq(Int), Len(c) \in {3, 4}, Store(i, c),
           UNCHANGED <<dev, bpp>>
    PROVE  \/ /\ answer' = "ok" /\ i + 1 \in 1 .. dev.leds /\ Promise!IsColour(pix'[i + 1], c)
              /\ \A j \in 1 .. Leds \ {i + 1} : pix'[j] = pix[j]
           \/ answer' = "invalid" /\ pix' = pix
<1>1. /\ bpp \in {3, 4} /\ dev.leds \in 0 .. Leds /\ Leds \in Nat
      /\ Len(buf) = dev.leds * bpp /\ dev.leds * bpp \in Nat
  BY LenBuf, StripAssumption DEF Shape
<1>2. pix = ReadBack(dev.kind, dev.leds, bpp, buf) /\ pix' = ReadBack(dev.kind, dev.leds, bpp, buf')
  BY <1>1, PixReads
<1>3. CASE ~(i \in 0 .. dev.leds - 1 /\ (Len(c) = 4 => bpp = 4))
  BY <1>2, <1>3 DEF Store
<1>4. CASE i \in 0 .. dev.leds - 1 /\ (Len(c) = 4 => bpp = 4)
  <2> DEFINE v == Order(c)
  <2>1. /\ answer' = "ok"
        /\ buf' = [n \in 1 .. Len(buf) |->
                     IF n > i * bpp /\ n <= (i + 1) * bpp
                     THEN Kept(dev.kind, v[n - i * bpp]) ELSE buf[n]]
    BY <1>4 DEF Store
  <2>2. v \in [1 .. 4 -> Int]
    <3>1. PICK w : w = IF Len(c) = 4 THEN c[4] ELSE 0
      OBVIOUS
    <3>2. c[1] \in Int /\ c[2] \in Int /\ c[3] \in Int /\ w \in Int
      BY <3>1
    <3>3. v = <<c[2], c[1], c[3], w>>
      BY <3>1 DEF Order
    <3> QED  BY <3>2, <3>3, SMTT(30)
  <2>3. /\ v[1] = c[2] /\ v[2] = c[1] /\ v[3] = c[3] /\ (Len(c) = 4 => v[4] = c[4])
        /\ (Len(c) # 4 => v[4] = 0)
    BY DEF Order
  <2> HIDE DEF v
  <2>4. \A m \in 1 .. dev.leds * bpp :
          buf'[m] = IF m > i * bpp /\ m <= (i + 1) * bpp
                    THEN Kept(dev.kind, v[m - i * bpp]) ELSE buf[m]
    BY <1>1, <2>1
  <2>5. /\ pix'[i + 1] = [k \in 1 .. bpp |-> v[Place(k)] % 256]
        /\ \A j \in 1 .. Leds \ {i + 1} : pix'[j] = pix[j]
    <3>1. /\ ReadBack(dev.kind, dev.leds, bpp, buf')[i + 1] = [k \in 1 .. bpp |-> v[Place(k)] % 256]
          /\ \A j \in 1 .. Leds \ {i + 1} :
               ReadBack(dev.kind, dev.leds, bpp, buf')[j] = ReadBack(dev.kind, dev.leds, bpp, buf)[j]
      <4> DEFINE j == i + 1
      <4>1. j \in 1 .. dev.leds /\ (j - 1) * bpp = i * bpp
        BY <1>1, <1>4
      <4> HIDE DEF j
      <4>2. Paints(dev.kind, bpp, dev.leds, j, v, buf, buf')
        BY <2>4, <4>1 DEF j, Paints
      <4>3. ReadsPainted(dev.kind, bpp, dev.leds, j, v, buf, buf')
        <5>1. bpp \in {3, 4} /\ dev.leds \in 0 .. Leds /\ j \in 1 .. dev.leds
          BY <1>1, <4>1
        <5> QED  BY <2>2, <4>2, <5>1, Painted
      <4> QED  BY <4>3 DEF j, ReadsPainted
    <3> QED  BY <1>2, <3>1, Zenon
  <2>6. DOMAIN c = 1 .. Len(c) /\ 1 .. Len(c) \subseteq 1 .. bpp
    <3>1. DOMAIN c = 1 .. Len(c)
      OBVIOUS
    <3>2. Len(c) \in Nat /\ bpp \in Nat /\ Len(c) <= bpp
      <4>1. CASE Len(c) = 3
        BY <1>1, <4>1
      <4>2. CASE Len(c) = 4
        BY <1>4, <4>2
      <4> QED  BY <4>1, <4>2
    <3> QED  BY <3>1, <3>2
  <2>7. ASSUME NEW k \in 1 .. bpp
        PROVE  v[Place(k)] % 256 = IF k \in DOMAIN c THEN c[k] % 256 ELSE 0
    <3>1. k = 1 \/ k = 2 \/ k = 3 \/ k = 4
      BY <1>1
    <3>2. 0 % 256 = 0
      OBVIOUS
    <3>3. CASE k = 1
      BY <2>3, <2>6, <3>3 DEF Place
    <3>4. CASE k = 2
      BY <2>3, <2>6, <3>4 DEF Place
    <3>5. CASE k = 3
      BY <2>3, <2>6, <3>5 DEF Place
    <3>6. CASE k = 4
      <4>1. CASE Len(c) = 4
        BY <2>3, <2>6, <3>6, <4>1 DEF Place
      <4>2. CASE Len(c) = 3
        BY <2>3, <2>6, <3>2, <3>6, <4>2 DEF Place
      <4> QED  BY <4>1, <4>2
    <3> QED  BY <3>1, <3>3, <3>4, <3>5, <3>6
  <2>8. pix'[i + 1] # Unset
    <3>1. \A k \in 1 .. bpp : v[Place(k)] % 256 \in 0 .. 255
      <4>1. \A k \in 1 .. bpp : Place(k) \in 1 .. 4
        BY <1>1 DEF Place
      <4>2. \A x \in Int : x % 256 \in 0 .. 255
        OBVIOUS
      <4> QED  BY <2>2, <4>1, <4>2, ZenonT(40)
    <3>2. pix'[i + 1] \in [1 .. bpp -> 0 .. 255]
      <4> DEFINE p == [k \in 1 .. bpp |-> v[Place(k)] % 256]
      <4>1. p \in [1 .. bpp -> 0 .. 255]
        BY <3>1, ZenonT(40)
      <4> QED  BY <2>5, <4>1, ZenonT(40)
    <3> QED  BY <1>1, <3>2, PixelIsSet, ZenonT(90)
  <2>9. Promise!IsColour(pix'[i + 1], c)
    BY <2>5, <2>6, <2>7, <2>8 DEF Promise!IsColour
  <2> QED  BY <1>1, <1>4, <2>1, <2>5, <2>9, SMTT(30)
<1> QED  BY <1>3, <1>4

-----------------------------------------------------------------------------
(* The wheel of hues.                                                      *)

HuesInRange ==
    \A h \in Hues : h.hue \in 0 .. 359 /\ h.saturation \in 0 .. 255 /\ h.value \in 0 .. 255

\* How high red, green and blue are in each sixth of the wheel.
LEMMA Shares ==
    ASSUME NEW r \in 0 .. 59
    PROVE  /\ Promise!Share(0 + r, 0) = 60 /\ Promise!Share(0 + r, 120) = r /\ Promise!Share(0 + r, 240) = 0
           /\ Promise!Share(60 + r, 0) = 60 - r /\ Promise!Share(60 + r, 120) = 60
           /\ Promise!Share(60 + r, 240) = 0
           /\ Promise!Share(120 + r, 0) = 0 /\ Promise!Share(120 + r, 120) = 60
           /\ Promise!Share(120 + r, 240) = r
           /\ Promise!Share(180 + r, 0) = 0 /\ Promise!Share(180 + r, 120) = 60 - r
           /\ Promise!Share(180 + r, 240) = 60
           /\ Promise!Share(240 + r, 0) = r /\ Promise!Share(240 + r, 120) = 0
           /\ Promise!Share(240 + r, 240) = 60
           /\ Promise!Share(300 + r, 0) = 60 /\ Promise!Share(300 + r, 120) = 0
           /\ Promise!Share(300 + r, 240) = 60 - r
BY DEF Promise!Share, Promise!Away

\* A component x that has the given share of what lies between low and high.
Near(x, low, high, share) == 60 * (x - low) - (high - low) * share \in -59 .. 59 /\ x \in 0 .. 255

\* The sixths of the wheel.
Wheel(q, low, high, adj) ==
    CASE q = 0 -> <<high, low + adj, low>>
      [] q = 1 -> <<high - adj, high, low>>
      [] q = 2 -> <<low, high, low + adj>>
      [] q = 3 -> <<low, high - adj, high>>
      [] q = 4 -> <<low + adj, low, high>>
      [] OTHER -> <<high, low, high - adj>>

LEMMA WheelIs ==
    ASSUME NEW low, NEW high, NEW adj
    PROVE  /\ Wheel(0, low, high, adj) = <<high, low + adj, low>>
           /\ Wheel(1, low, high, adj) = <<high - adj, high, low>>
           /\ Wheel(2, low, high, adj) = <<low, high, low + adj>>
           /\ Wheel(3, low, high, adj) = <<low, high - adj, high>>
           /\ Wheel(4, low, high, adj) = <<low + adj, low, high>>
           /\ Wheel(5, low, high, adj) = <<high, low, high - adj>>
BY DEF Wheel

\* The colour p is between low and value as the hue says.
Between(p, low, value, hue) ==
    \A k \in 1 .. 3 :
      60 * (p[k] - low) - (value - low) * Promise!Share(hue, <<0, 120, 240>>[k]) \in -59 .. 59

\* led_strip_hsv2rgb is right on the whole wheel, at every saturation and value.
LEMMA HueRight ==
    ASSUME HuesInRange, NEW h \in Hues, NEW p, Promise!IsColour(p, HsvToRgb(h))
    PROVE  Promise!IsHue(p, h)
<1>1. PICK hue \in 0 .. 359, s \in 0 .. 255, high \in 0 .. 255 :
        hue = h.hue /\ s = h.saturation /\ high = h.value
  <2>1. h.hue \in 0 .. 359 /\ h.saturation \in 0 .. 255 /\ h.value \in 0 .. 255
    BY DEF HuesInRange
  <2> QED  BY <2>1, ZenonT(40)
<1>2. PICK low \in 0 .. high : low = (high * (255 - s)) \div 255
  <2>1. PICK m \in Int : m = high * (255 - s) /\ m >= 0 /\ m <= 255 * high
    <3>1. high * (255 - s) \in Int /\ high * (255 - s) >= 0 /\ high * (255 - s) <= 255 * high
      OBVIOUS
    <3> QED  BY <3>1
  <2>2. m \div 255 \in 0 .. high
    BY <2>1
  <2> QED  BY <2>1, <2>2
<1>3. PICK r \in 0 .. 59, q \in 0 .. 5 : r = hue % 60 /\ q = hue \div 60 /\ hue = 60 * q + r
  OBVIOUS
<1>4. PICK adj : adj = ((high - low) * r) \div 60
  OBVIOUS
<1> DEFINE c == HsvToRgb(h)
<1>5. /\ q = 0 => c = <<high, low + adj, low>>
      /\ q = 1 => c = <<high - adj, high, low>>
      /\ q = 2 => c = <<low, high, low + adj>>
      /\ q = 3 => c = <<low, high - adj, high>>
      /\ q = 4 => c = <<low + adj, low, high>>
      /\ q = 5 => c = <<high, low, high - adj>>
  <2>1. /\ high = h.value /\ low = (h.value * (255 - h.saturation)) \div 255
        /\ adj = ((h.value - low) * (h.hue % 60)) \div 60 /\ q = h.hue \div 60
    BY <1>1, <1>2, <1>3, <1>4, ZenonT(40)
  <2>2. c = Wheel(h.hue \div 60,
                  (h.value * (255 - h.saturation)) \div 255,
                  h.value,
                  ((h.value - (h.value * (255 - h.saturation)) \div 255) * (h.hue % 60)) \div 60)
    BY Zenon DEF HsvToRgb, Wheel
  <2>3. c = Wheel(q, low, high, adj)
    BY <2>1, <2>2, ZenonT(90)
  <2>4. /\ Wheel(0, low, high, adj) = <<high, low + adj, low>>
        /\ Wheel(1, low, high, adj) = <<high - adj, high, low>>
        /\ Wheel(2, low, high, adj) = <<low, high, low + adj>>
        /\ Wheel(3, low, high, adj) = <<low, high - adj, high>>
        /\ Wheel(4, low, high, adj) = <<low + adj, low, high>>
        /\ Wheel(5, low, high, adj) = <<high, low, high - adj>>
    BY WheelIs
  <2> QED  BY <2>3, <2>4, ZenonT(40)
<1>6. DOMAIN c = 1 .. 3
  BY <1>3, <1>5
<1> HIDE DEF c
<1> DEFINE Right(k, own) == Near(c[k], low, high, Promise!Share(hue, own))
<1>7. Right(1, 0) /\ Right(2, 120) /\ Right(3, 240)
  <2>1. /\ Near(high, low, high, 60) /\ Near(low, low, high, 0)
        /\ Near(low + adj, low, high, r) /\ Near(high - adj, low, high, 60 - r)
    <3>1. PICK span \in 0 .. 255 : span = high - low
      OBVIOUS
    <3>2. PICK part \in Int : part = span * r /\ part >= 0 /\ part <= 59 * span
      <4>1. span * r \in Int /\ span * r >= 0 /\ span * r <= span * 59
        OBVIOUS
      <4> QED  BY <4>1
    <3>3. adj = part \div 60
      BY <1>4, <3>1, <3>2
    <3>4. adj \in Int /\ 60 * adj <= part /\ part <= 60 * adj + 59 /\ adj >= 0 /\ adj <= span
      BY <3>2, <3>3
    <3>5. span * 60 = 60 * span /\ span * 0 = 0 /\ span * (60 - r) = 60 * span - part
      BY <3>2
    <3>6. Near(high, low, high, 60) /\ Near(low, low, high, 0)
      BY <3>1, <3>5 DEF Near
    <3>7. Near(low + adj, low, high, r)
      <4>1. low + adj \in 0 .. 255
        BY <3>1, <3>4
      <4>2. PICK x \in 0 .. 255 : x = low + adj
        BY <4>1
      <4>3. 60 * (x - low) - part \in -59 .. 59
        BY <3>2, <3>4, <4>2
      <4>4. (high - low) * r = part
        BY <3>1, <3>2
      <4>5. Near(x, low, high, r)
        BY <4>4, <4>3 DEF Near
      <4> QED  BY <4>2, <4>5
    <3>8. Near(high - adj, low, high, 60 - r)
      <4>1. 60 * (high - adj - low) - (60 * span - part) \in -59 .. 59 /\ high - adj \in 0 .. 255
        BY <3>1, <3>2, <3>4
      <4> QED  BY <3>1, <3>5, <4>1 DEF Near
    <3> QED  BY <3>6, <3>7, <3>8
  <2>2. CASE q = 0
    <3>1. hue = 0 + r /\ c[1] = high /\ c[2] = low + adj /\ c[3] = low
      BY <1>3, <1>5, <2>2
    <3> QED  BY <2>1, <3>1, Shares
  <2>3. CASE q = 1
    <3>1. hue = 60 + r /\ c[1] = high - adj /\ c[2] = high /\ c[3] = low
      BY <1>3, <1>5, <2>3
    <3> QED  BY <2>1, <3>1, Shares
  <2>4. CASE q = 2
    <3>1. hue = 120 + r /\ c[1] = low /\ c[2] = high /\ c[3] = low + adj
      BY <1>3, <1>5, <2>4
    <3> QED  BY <2>1, <3>1, Shares
  <2>5. CASE q = 3
    <3>1. hue = 180 + r /\ c[1] = low /\ c[2] = high - adj /\ c[3] = high
      BY <1>3, <1>5, <2>5
    <3> QED  BY <2>1, <3>1, Shares
  <2>6. CASE q = 4
    <3>1. hue = 240 + r /\ c[1] = low + adj /\ c[2] = low /\ c[3] = high
      BY <1>3, <1>5, <2>6
    <3> QED  BY <2>1, <3>1, Shares
  <2>7. CASE q = 5
    <3>1. hue = 300 + r /\ c[1] = high /\ c[2] = low /\ c[3] = high - adj
      BY <1>3, <1>5, <2>7
    <3> QED  BY <2>1, <3>1, Shares
  <2> QED  BY <2>2, <2>3, <2>4, <2>5, <2>6, <2>7
<1>8. /\ p # Unset /\ 1 .. 3 \subseteq DOMAIN p
      /\ \A k \in DOMAIN p : p[k] = IF k \in 1 .. 3 THEN c[k] % 256 ELSE 0
  BY <1>6 DEF Promise!IsColour, c
<1>9. p[1] = c[1] /\ p[2] = c[2] /\ p[3] = c[3]
  <2>1. c[1] \in 0 .. 255 /\ c[2] \in 0 .. 255 /\ c[3] \in 0 .. 255
    BY <1>7 DEF Near
  <2>2. \A x \in 0 .. 255 : x % 256 = x
    OBVIOUS
  <2>3. p[1] = c[1] % 256 /\ p[2] = c[2] % 256 /\ p[3] = c[3] % 256
    <3>1. 1 \in 1 .. 3 /\ 2 \in 1 .. 3 /\ 3 \in 1 .. 3
      BY SMTT(30)
    <3> QED  BY <1>8, <3>1
  <2> QED  BY <2>1, <2>2, <2>3, SMTT(30)
<1> DEFINE own == <<0, 120, 240>>
<1>10. ASSUME NEW k \in 1 .. 3
       PROVE  60 * (p[k] - low) - (high - low) * Promise!Share(hue, own[k]) \in -59 .. 59
  <2>1. k = 1 \/ k = 2 \/ k = 3
    OBVIOUS
  <2>2. own[1] = 0 /\ own[2] = 120 /\ own[3] = 240
    OBVIOUS
  <2> QED  BY <1>7, <1>9, <2>1, <2>2 DEF Near
<1>11. \A k \in DOMAIN p \ (1 .. 3) : p[k] = 0
  BY <1>8
<1>12. low = (h.value * (255 - h.saturation)) \div 255 /\ high = h.value /\ hue = h.hue
  BY <1>1, <1>2
<1>13. p # Unset
  BY <1>8
<1>14. Between(p, low, high, hue)
  BY <1>10, ZenonT(40) DEF Between
<1>15. Between(p, (h.value * (255 - h.saturation)) \div 255, h.value, h.hue)
  BY <1>12, <1>14, ZenonT(90)
<1> QED  BY <1>11, <1>13, <1>15, Zenon DEF Promise!IsHue, Between

-----------------------------------------------------------------------------
(* The promise of led_strip_interface.h.                                   *)

\* Who waits for what, what a channel that is left on tells, and that the
\* first call of setLedStripColor creates the strip.
Turns ==
    /\ answer = "busy" <=> pc = "wait"
    /\ answer = "shown" <=> pc = "sent"
    /\ chan = "enabled" => pc \in {"wait", "sent"} \/ faults > 0
    /\ caller = "firmware" /\ ~initialized => dev = NoStrip

LEMMA FaultCounts == ASSUME RestType, Fault PROVE faults' > 0 /\ faults' > faults
<1>1. MaxFaults \in Nat /\ faults \in 0 .. MaxFaults
  BY StripAssumption DEF RestType
<1>2. faults' = faults + 1
  BY DEF Fault
<1> QED  BY <1>1, <1>2

LEMMA StoreAnswers == ASSUME NEW i, NEW c, Store(i, c) PROVE answer' \in {"ok", "invalid"}
BY DEF Store

LEMMA NextTurns ==
    ASSUME StripInv, Turns, [StripNext]_stripVars
    PROVE  Turns'
<1>0. RestType /\ Owned
  BY DEF StripInv
<1>1. ASSUME NEW kind \in {"rmt", "spi"}, NEW leds \in 1 .. Leds, New(kind, leds)
      PROVE  Turns'
  <2>1. /\ UNCHANGED <<caller, initialized, pc>> /\ caller = "client" /\ pc = "idle"
        /\ answer' \in {"ok", "failed"} /\ chan' \in {"init", "none", chan}
        /\ (chan' = chan => faults' = faults \/ Fault)
    BY <1>1 DEF New, Opened
  <2>2. chan # "enabled"
    BY <1>0, <1>1 DEF New, Owned, NoStrip
  <2> QED  BY <2>1, <2>2 DEF Turns
<1>2. CASE SetLedStripColorFirst
  <2>1. /\ answer' = "ok" /\ pc' \in {"created", "idle"} /\ chan' \in {"init", "none"}
        /\ (initialized' \/ dev' = NoStrip)
    BY <1>2 DEF SetLedStripColorFirst, Opened, Restarted
  <2> QED  BY <2>1 DEF Turns
<1>3. ASSUME NEW i, NEW c, SetPixel(i, c) \/ SetLedStripColor(i, c)
      PROVE  Turns'
  <2>1. answer' \in {"ok", "invalid"}
    BY <1>3, StoreAnswers DEF SetPixel, SetLedStripColor
  <2>2. /\ pc \in {"idle", "created"} /\ pc' \in {"idle", "set"}
        /\ UNCHANGED <<caller, initialized, dev, chan, faults>>
    BY <1>3 DEF SetPixel, SetLedStripColor
  <2> QED  BY <2>1, <2>2 DEF Turns
<1>4. ASSUME NEW i \in Indices, NEW h \in Hues, SetPixelHsv(i, h)
      PROVE  Turns'
  BY <1>3, <1>4 DEF SetPixelHsv
<1>5. CASE Refresh \/ Clear
  <2>1. /\ pc \in {"set", "idle"} /\ RefreshAny /\ UNCHANGED <<caller, initialized, dev>>
        /\ pc' = IF answer' = "busy" THEN "wait" ELSE "idle"
    BY <1>5 DEF Refresh, Clear, RefreshAny
  <2>2. CASE dev.kind = "rmt"
    <3>1. RmtRefresh
      BY <2>1, <2>2 DEF RefreshAny
    <3>2. CASE chan = "enabled" /\ answer' = "failed" /\ UNCHANGED <<chan, enc, faults>>
      BY <2>1, <3>2 DEF Turns
    <3>3. CASE chan = "init" /\ Fault /\ answer' = "failed" /\ chan' \in {"init", "enabled"} /\ UNCHANGED enc
      <4>1. faults' > 0
        BY <1>0, <3>3, FaultCounts
      <4> QED  BY <2>1, <3>3, <4>1 DEF Turns
    <3>4. CASE /\ chan = "init" /\ chan' = "enabled"
               /\ enc' = Reset /\ answer' = "busy" /\ UNCHANGED faults
      BY <2>1, <3>4 DEF Turns
    <3> QED  BY <3>1, <3>2, <3>3, <3>4 DEF RmtRefresh
  <2>3. CASE dev.kind # "rmt"
    <3>1. SpiRefresh
      BY <2>1, <2>3 DEF RefreshAny
    <3> QED  BY <2>1, <3>1 DEF SpiRefresh, Turns
  <2> QED  BY <2>2, <2>3
<1>6. CASE Encode
  BY <1>6 DEF Encode, Turns
<1>7. CASE SpiTransmit
  <2>1. chan = "none" /\ UNCHANGED <<chan, caller, initialized, dev>> /\ pc = "wait"
    BY <1>0, <1>7 DEF SpiTransmit, Owned
  <2>2. (pc' = "idle" /\ answer' = "failed") \/ (pc' = "sent" /\ answer' = "shown")
    BY <1>7 DEF SpiTransmit
  <2> QED  BY <2>1, <2>2 DEF Turns
<1>8. CASE RefreshReturn
  <2>1. chan' # "enabled"
    <3>1. CASE dev.kind = "rmt"
      BY <1>8, <3>1 DEF RefreshReturn
    <3>2. CASE dev.kind # "rmt"
      <4>1. dev.kind \in {"spi", "none"} /\ chan = "none"
        BY <1>0, <3>2 DEF Owned, NoStrip
      <4> QED  BY <1>8, <3>2, <4>1 DEF RefreshReturn
    <3> QED  BY <3>1, <3>2
  <2>2. pc' = "idle" /\ answer' = "ok" /\ UNCHANGED <<caller, initialized, dev>>
    BY <1>8 DEF RefreshReturn
  <2> QED  BY <2>1, <2>2 DEF Turns
<1>9. CASE Del
  <2>1. /\ pc = "idle" /\ pc' \in {"idle", "given up"} /\ answer' \in {"ok", "failed"}
        /\ UNCHANGED <<caller, initialized>> /\ caller = "client" /\ chan' \in {chan, "none"}
    BY <1>9 DEF Del, RmtDel, SpiDel
  <2>2. chan' = "enabled" => UNCHANGED faults
    <3>1. CASE dev.kind = "rmt"
      BY <1>9, <3>1 DEF Del, RmtDel
    <3>2. CASE dev.kind # "rmt"
      <4>1. chan = "none"
        BY <1>0, <3>2 DEF Owned, NoStrip
      <4> QED  BY <2>1, <4>1
    <3> QED  BY <3>1, <3>2
  <2> QED  BY <2>1, <2>2 DEF Turns
<1>10. CASE Restart
  BY <1>10 DEF Restart, Restarted, Turns
<1>11. CASE UNCHANGED stripVars
  BY <1>11 DEF stripVars, Turns
<1> QED  BY <1>1, <1>2, <1>3, <1>4, <1>5, <1>6, <1>7, <1>8, <1>9, <1>10, <1>11
         DEF StripNext, StripDriver

-----------------------------------------------------------------------------
LEMMA UsedPix ==
    ASSUME Shape, UNCHANGED <<dev, bpp, buf>>
    PROVE  pix' = pix
BY PixReads DEF Shape

LEMMA ClosedPix ==
    ASSUME Shape, dev' = NoStrip, UNCHANGED bpp
    PROVE  pix' = [i \in Promise!Pixels |-> Unset]
<1>1. dev'.leds = 0 /\ pix' = ReadBack(dev'.kind, dev'.leds, bpp', buf')
  BY PixReads DEF Shape, NoStrip
<1>2. \A i \in 1 .. Leds : ~(i <= 0)
  BY StripAssumption
<1> QED  BY <1>1, <1>2 DEF ReadBack, Promise!Pixels

\* A pixel whose bytes are all read as 0.
LEMMA DarkPixel ==
    ASSUME NEW n \in {3, 4}, NEW p, p = [k \in 1 .. n |-> 0]
    PROVE  Promise!Dark(p)
<1>1. p \in [1 .. n -> 0 .. 255]
  <2>1. 0 \in 0 .. 255
    OBVIOUS
  <2> QED  BY <2>1
<1>2. Unset \notin [1 .. n -> 0 .. 255]
  BY ONLY UnsetAssumption, n \in {3, 4}, ZenonT(40)
<1>3. p # Unset
  BY <1>1, <1>2, ZenonT(40)
<1> QED  BY <1>3 DEF Promise!Dark

LEMMA DarkReads ==
    ASSUME NEW kind, NEW leds \in 0 .. Leds, NEW n \in {3, 4}, NEW b,
           \A m \in 1 .. leds * n : Fine(kind, b[m]) /\ ByteOf(kind, b[m]) = 0, NEW i \in 1 .. leds
    PROVE  Promise!Dark(ReadBack(kind, leds, n, b)[i])
<1>1. Leds \in Nat /\ leds \in Nat /\ i \in 1 .. Leds /\ i <= leds
  BY StripAssumption
<1>2. \A k \in 1 .. n : Place(k) \in 1 .. n
  BY DEF Place
<1>3. ASSUME NEW k \in 1 .. n PROVE (i - 1) * n + k \in 1 .. leds * n
  <2>1. CASE n = 3
    BY <1>1, <2>1
  <2>2. CASE n = 4
    BY <1>1, <2>2
  <2> QED  BY <2>1, <2>2
<1>4. \A k \in 1 .. n : Fine(kind, b[(i - 1) * n + k]) /\ ByteOf(kind, b[(i - 1) * n + k]) = 0
  BY <1>3
<1>5. FineAt(kind, n, b, i)
  BY <1>4 DEF FineAt
<1>6. ReadAt(kind, n, b, i) = [k \in 1 .. n |-> 0]
  BY <1>2, <1>4 DEF ReadAt
<1>7. Promise!Dark(ReadAt(kind, n, b, i))
  BY <1>6, DarkPixel
<1>8. ReadBack(kind, leds, n, b)[i] = ReadAt(kind, n, b, i)
  BY <1>1, <1>5 DEF ReadBack
<1> QED  BY <1>7, <1>8

\* The pixels of a strip that was just created: dark, or no colour yet.
LEMMA OpenedPix ==
    ASSUME Shape, NEW kind \in {"rmt", "spi"}, NEW leds \in 1 .. Leds, Opened(kind, leds), UNCHANGED bpp
    PROVE  \A i \in Promise!Pixels : pix'[i] = Unset \/ Promise!Dark(pix'[i])
<1>1. bpp \in {3, 4} /\ leds \in 0 .. Leds /\ dev'.kind = kind /\ dev'.leds = leds
  BY DEF Shape, Opened
<1>2. pix' = ReadBack(kind, leds, bpp, buf')
  BY <1>1, PixReads
<1>3. \A m \in 1 .. leds * bpp : buf'[m] = Zeroed(kind)
  BY DEF Opened
<1>4. SUFFICES ASSUME NEW i \in 1 .. Leds PROVE pix'[i] = Unset \/ Promise!Dark(pix'[i])
  BY DEF Promise!Pixels
<1>5. CASE i > leds
  <2>1. ~(i <= leds)
    BY <1>5, StripAssumption
  <2> QED  BY <1>2, <2>1 DEF ReadBack
<1>6. CASE i <= leds /\ kind = "rmt"
  <2>1. \A m \in 1 .. leds * bpp : Fine(kind, buf'[m]) /\ ByteOf(kind, buf'[m]) = 0
    BY <1>3, <1>6, ZeroedReads DEF Fine
  <2>2. i \in 1 .. leds
    BY <1>6, StripAssumption
  <2>3. Promise!Dark(ReadBack(kind, leds, bpp, buf')[i])
    BY <1>1, <2>1, <2>2, DarkReads
  <2> QED  BY <1>2, <2>3
<1>7. CASE i <= leds /\ kind = "spi"
  <2>1. 1 \in 1 .. bpp /\ (i - 1) * bpp + 1 \in 1 .. leds * bpp
    <3>1. Leds \in Nat /\ i \in Nat /\ leds \in Nat /\ 1 <= i /\ i <= leds
      BY <1>7, StripAssumption
    <3>2. CASE bpp = 3
      BY <3>1, <3>2
    <3>3. CASE bpp = 4
      BY <3>1, <3>3
    <3> QED  BY <1>1, <3>2, <3>3
  <2>2. ~Fine(kind, buf'[(i - 1) * bpp + 1])
    BY <1>3, <1>7, <2>1, ZeroedReads
  <2>3. ~FineAt(kind, bpp, buf', i)
    BY <2>1, <2>2 DEF FineAt
  <2> QED  BY <1>2, <2>3 DEF ReadBack
<1> QED  BY <1>5, <1>6, <1>7

LEMMA ClearedPix ==
    ASSUME Shape, UNCHANGED <<dev, bpp>>, buf' = [n \in DOMAIN buf |-> Kept(dev.kind, 0)]
    PROVE  \A i \in 1 .. dev.leds : Promise!Dark(pix'[i])
<1>1. bpp \in {3, 4} /\ dev.leds \in 0 .. Leds /\ DOMAIN buf = 1 .. dev.leds * bpp
  BY DEF Shape
<1>2. pix' = ReadBack(dev.kind, dev.leds, bpp, buf')
  BY <1>1, PixReads
<1>3. Fine(dev.kind, Kept(dev.kind, 0)) /\ ByteOf(dev.kind, Kept(dev.kind, 0)) = 0
  <2>1. 0 % 256 = 0
    OBVIOUS
  <2> QED  BY <2>1, KeptReads
<1>4. \A m \in 1 .. dev.leds * bpp : Fine(dev.kind, buf'[m]) /\ ByteOf(dev.kind, buf'[m]) = 0
  BY <1>1, <1>3
<1> SUFFICES ASSUME NEW i \in 1 .. dev.leds PROVE Promise!Dark(pix'[i])
  OBVIOUS
<1>5. Promise!Dark(ReadBack(dev.kind, dev.leds, bpp, buf')[i])
  BY <1>1, <1>4, DarkReads
<1> QED  BY <1>2, <1>5

-----------------------------------------------------------------------------
\* The cells before a pixel that, like all before it, has a colour.
LEMMA ColoursBefore ==
    ASSUME Shape, NEW i \in 1 .. Leds, \A j \in 1 .. i : pix[j] # Unset
    PROVE  /\ i <= dev.leds /\ pix[i] = ReadAt(dev.kind, bpp, buf, i)
           /\ \A m \in 1 .. i * bpp : IsByte(buf[m])
<1>1. bpp \in {3, 4} /\ Leds \in Nat /\ i \in Nat /\ i >= 1 /\ i <= Leds /\ dev.leds \in Nat
  BY StripAssumption DEF Shape
<1>2. pix = ReadBack(dev.kind, dev.leds, bpp, buf)
  BY <1>1, PixReads
<1>3. ASSUME NEW j \in 1 .. i
      PROVE  j <= dev.leds /\ FineAt(dev.kind, bpp, buf, j)
  <2>1. j \in 1 .. Leds /\ pix[j] # Unset
    BY <1>1
  <2> QED  BY <1>2, <2>1 DEF ReadBack
<1>4. i <= dev.leds /\ pix[i] = ReadAt(dev.kind, bpp, buf, i)
  <2>1. i \in 1 .. i
    BY <1>1
  <2> QED  BY <1>2, <1>3, <2>1 DEF ReadBack
<1>5. ASSUME NEW m \in 1 .. i * bpp PROVE IsByte(buf[m])
  <2>1. PICK j \in 1 .. i, k \in 1 .. bpp : m = (j - 1) * bpp + k
    <3>1. CASE bpp = 3
      <4> DEFINE j == ((m - 1) \div 3) + 1
                 k == ((m - 1) % 3) + 1
      <4>1. j \in 1 .. i /\ k \in 1 .. 3 /\ m = (j - 1) * 3 + k
        BY <1>1, <3>1
      <4> QED  BY <3>1, <4>1
    <3>2. CASE bpp = 4
      <4> DEFINE j == ((m - 1) \div 4) + 1
                 k == ((m - 1) % 4) + 1
      <4>1. j \in 1 .. i /\ k \in 1 .. 4 /\ m = (j - 1) * 4 + k
        BY <1>1, <3>2
      <4> QED  BY <3>2, <4>1
    <3> QED  BY <1>1, <3>1, <3>2
  <2>2. Fine(dev.kind, buf[(j - 1) * bpp + k])
    BY <1>3 DEF FineAt
  <2> QED  BY <2>1, <2>2 DEF Fine, IsByte
<1> QED  BY <1>4, <1>5

\* What the LEDs show once the first cells of the buffer have reached them.
LEMMA LatchShows ==
    ASSUME Shape, NEW cells, Len(cells) \in Nat,
           \A m \in 1 .. Len(cells) : m \in 1 .. Len(buf) /\ cells[m] = buf[m],
           NEW i \in 1 .. Leds, \A j \in 1 .. i : pix[j] # Unset
    PROVE  /\ i * bpp <= Len(cells) => Latched(cells)[i] = pix[i]
           /\ i * bpp > Len(cells) => Latched(cells)[i] = lit[i]
<1>1. bpp \in {3, 4}
  BY DEF Shape
<1>2. CASE i * bpp > Len(cells)
  <2>1. Latched(cells)[i] = lit[i]
    BY <1>1, <1>2, LatchedIs
  <2>2. i * bpp \in Nat
    <3>1. i \in Nat
      BY StripAssumption
    <3>2. CASE bpp = 3
      BY <3>1, <3>2
    <3>3. CASE bpp = 4
      BY <3>1, <3>3
    <3> QED  BY <1>1, <3>2, <3>3
  <2> QED  BY <1>2, <2>1, <2>2
<1>3. CASE i * bpp <= Len(cells)
  <2>0. i \in Nat /\ i >= 1 /\ i * bpp \in Nat
    <3>1. i \in Nat /\ i >= 1
      BY StripAssumption
    <3>2. CASE bpp = 3
      BY <3>1, <3>2
    <3>3. CASE bpp = 4
      BY <3>1, <3>3
    <3> QED  BY <1>1, <3>1, <3>2, <3>3
  <2>1. \A m \in 1 .. i * bpp : m \in 1 .. Len(cells) /\ cells[m] = buf[m]
    BY <1>3, <2>0
  <2>2. \A m \in 1 .. i * bpp : IsByte(cells[m])
    BY <2>1, ColoursBefore
  <2>3. Latched(cells)[i] = ReadAt(dev.kind, bpp, cells, i)
    BY <1>1, <1>3, <2>2, LatchedIs
  <2>4. \A k \in 1 .. bpp : Place(k) \in 1 .. bpp /\ (i - 1) * bpp + k \in 1 .. i * bpp
    <3>1. CASE bpp = 3
      BY <2>0, <3>1 DEF Place
    <3>2. CASE bpp = 4
      BY <2>0, <3>2 DEF Place
    <3> QED  BY <1>1, <3>1, <3>2
  <2>5. \A k \in 1 .. bpp : cells[(i - 1) * bpp + Place(k)] = buf[(i - 1) * bpp + Place(k)]
    BY <2>1, <2>4
  <2>6. ReadAt(dev.kind, bpp, cells, i) = ReadAt(dev.kind, bpp, buf, i)
    BY <2>5 DEF ReadAt
  <2>7. pix[i] = ReadAt(dev.kind, bpp, buf, i)
    BY ColoursBefore
  <2> QED  BY <1>3, <2>0, <2>3, <2>6, <2>7
<1> QED  BY <1>2, <1>3, StripAssumption

\* A transmission of the whole buffer shows all of it.
LEMMA WholeShows ==
    ASSUME Shape, dev # NoStrip, NEW cells, Len(cells) = Len(buf),
           \A m \in 1 .. Len(buf) : cells[m] = buf[m], lit' = Latched(cells),
           answer = "busy", answer' = "shown", UNCHANGED <<dev, bpp, buf>>
    PROVE  Promise!Show
<1>1. /\ Len(buf) = dev.leds * bpp /\ dev.leds * bpp \in Nat
      /\ bpp \in {3, 4} /\ Leds \in Nat /\ dev.leds \in Nat
  BY LenBuf, StripAssumption DEF Shape
<1>2. pix' = pix
  BY UsedPix
<1>3. ASSUME NEW i \in 1 .. Leds, i > dev.leds PROVE lit'[i] = lit[i]
  <2>1. i * bpp > Len(cells)
    <3>1. CASE bpp = 3
      BY <1>1, <1>3, <3>1
    <3>2. CASE bpp = 4
      BY <1>1, <1>3, <3>2
    <3> QED  BY <1>1, <3>1, <3>2
  <2> QED  BY <1>1, <2>1, LatchedIs
<1>4. ASSUME NEW i \in 1 .. Leds, ~(i > dev.leds), \A j \in 1 .. i : pix[j] # Unset
      PROVE  lit'[i] = pix[i]
  <2>1. i * bpp <= Len(cells)
    <3>1. CASE bpp = 3
      BY <1>1, <1>4, <3>1
    <3>2. CASE bpp = 4
      BY <1>1, <1>4, <3>2
    <3> QED  BY <1>1, <3>1, <3>2
  <2>2. Len(cells) \in Nat /\ \A m \in 1 .. Len(cells) : m \in 1 .. Len(buf) /\ cells[m] = buf[m]
    BY <1>1
  <2>3. Latched(cells)[i] = pix[i]
    BY <1>4, <2>1, <2>2, LatchShows, Zenon
  <2> QED  BY <2>3
<1>5. \A i \in 1 .. Leds :
        IF i > dev.leds THEN (\A j \in 1 .. dev.leds : pix[j] # Unset) => lit'[i] = lit[i]
        ELSE (\A j \in 1 .. i : pix[j] # Unset) => lit'[i] = pix[i]
  BY <1>3, <1>4
<1> QED  BY <1>2, <1>5, Zenon DEF Promise!Show, Promise!Pixels

\* What the RMT has put on the wire of a strip of so many cells.
LEMMA WireIs ==
    ASSUME Shape, dev # NoStrip, NEW symbols \in 0 .. 8 * (dev.leds * bpp)
    PROVE  /\ Len(Wire(symbols)) = symbols \div 8 /\ symbols \div 8 \in 0 .. Len(buf)
           /\ \A m \in 1 .. symbols \div 8 : Wire(symbols)[m] = buf[m]
<1>1. Len(buf) = dev.leds * bpp /\ dev.leds * bpp \in Nat
  BY LenBuf
<1>2. PICK all \in Nat : all = Len(buf)
  BY <1>1
<1>3. symbols \in 0 .. 8 * all /\ symbols \div 8 \in 0 .. all
  BY <1>1, <1>2
<1> DEFINE w == Wire(symbols)
<1>4. w = [n \in 1 .. symbols \div 8 |-> buf[((n - 1) % all) + 1]]
  BY <1>2 DEF Wire
<1>5. ASSUME NEW m \in 1 .. symbols \div 8 PROVE ((m - 1) % all) + 1 = m
  <2>1. m - 1 \in 0 .. all - 1
    BY <1>3
  <2> QED  BY <1>2, <2>1
<1> HIDE DEF w
<1>6. \A m \in 1 .. symbols \div 8 : w[m] = buf[m]
  BY <1>4, <1>5
<1>7. Len(w) = symbols \div 8
  <2>1. symbols \div 8 \in Nat /\ w = [n \in 1 .. symbols \div 8 |-> w[n]]
    BY <1>3, <1>4
  <2> QED  BY <2>1, LenIs
<1> QED  BY <1>2, <1>3, <1>6, <1>7 DEF w

\* Every step of the strip is one of the promise, or changes nothing of it.
Keeps == Promise!Next \/ UNCHANGED Promise!vars

LEMMA FaultsGrow == ASSUME RestType, Fault \/ UNCHANGED faults PROVE faults' >= faults
<1>1. MaxFaults \in Nat /\ faults \in 0 .. MaxFaults
  BY StripAssumption DEF RestType
<1>2. CASE Fault
  BY <1>1, <1>2 DEF Fault
<1>3. CASE UNCHANGED faults
  BY <1>1, <1>3
<1> QED  BY <1>2, <1>3

LEMMA OpeningKeeps ==
    ASSUME StripInv, dev = NoStrip, NEW kind \in {"rmt", "spi"}, NEW leds \in 1 .. Leds,
           Opened(kind, leds), answer' = "ok", UNCHANGED <<bpp, lit, faults>>
    PROVE  Promise!Next
<1>1. Shape /\ RestType
  BY DEF StripInv
<1>2. dev.leds = 0 /\ dev'.leds = leds /\ leds # 0
  BY StripAssumption DEF NoStrip, Opened
<1>3. \A i \in Promise!Pixels : pix'[i] = Unset \/ Promise!Dark(pix'[i])
  BY <1>1, OpenedPix
<1>4. Promise!Open
  BY <1>2, <1>3 DEF Promise!Open
<1> QED  BY <1>1, <1>4, FaultsGrow DEF Promise!Next

LEMMA RestartedKeeps ==
    ASSUME StripInv, Restarted, Fault \/ UNCHANGED faults,
           \A i \in 1 .. Leds : (\A j \in 1 .. i : pix[j] # Unset) =>
             lit'[i] \in {lit[i], pix[i]} \/ Promise!Dark(lit'[i])
    PROVE  Promise!Next
<1>1. Shape /\ RestType
  BY DEF StripInv
<1>2. dev' = NoStrip /\ dev'.leds = 0 /\ bpp' = bpp /\ answer' = "ok"
  BY DEF Restarted, NoStrip
<1>3. pix' = [i \in Promise!Pixels |-> Unset]
  BY <1>1, <1>2, ClosedPix
<1>4. Promise!Restart
  BY <1>2, <1>3 DEF Promise!Restart, Promise!Pixels
<1> QED  BY <1>1, <1>4, FaultsGrow DEF Promise!Next

LEMMA StoringKeeps ==
    ASSUME StripInv, HuesInRange, NEW i \in Int, NEW c,
           c \in Colours \/ \E h \in Hues : c = HsvToRgb(h),
           Store(i, c), UNCHANGED <<dev, bpp, lit, faults>>
    PROVE  Promise!Next
<1>1. Shape /\ RestType
  BY DEF StripInv
<1>2. c \in Seq(Int) /\ Len(c) \in {3, 4}
  BY StripAssumption, HueType, HueLen
<1>3. \/ /\ answer' = "ok" /\ i + 1 \in 1 .. dev.leds /\ Promise!IsColour(pix'[i + 1], c)
         /\ \A j \in 1 .. Leds \ {i + 1} : pix'[j] = pix[j]
      \/ answer' = "invalid" /\ pix' = pix
  BY <1>1, <1>2, StorePaints
<1>4. CASE answer' = "invalid" /\ pix' = pix
  <2>1. Promise!Refuse
    BY <1>4 DEF Promise!Refuse
  <2> QED  BY <1>1, <2>1, FaultsGrow DEF Promise!Next, Promise!Use
<1>5. CASE /\ answer' = "ok" /\ i + 1 \in 1 .. dev.leds /\ Promise!IsColour(pix'[i + 1], c)
           /\ \A j \in 1 .. Leds \ {i + 1} : pix'[j] = pix[j]
  <2>1. \/ \E d \in Colours : Promise!IsColour(pix'[i + 1], d)
        \/ \E h \in Hues : Promise!IsHue(pix'[i + 1], h)
    BY <1>5, HueRight
  <2>2. Promise!Paint
    BY <1>5, <2>1 DEF Promise!Paint, Promise!Pixels
  <2> QED  BY <1>1, <2>2, FaultsGrow DEF Promise!Next, Promise!Use
<1> QED  BY <1>3, <1>4, <1>5

\* A refresh that begins or fails, and one of a clear.
LEMMA BeginningKeeps ==
    ASSUME StripInv, Turns, RefreshAny, pc \notin {"wait", "sent"}, dev # NoStrip, Promise!KeepOrClear
    PROVE  Promise!Next
<1>1. RestType
  BY DEF StripInv
<1>2. UNCHANGED <<dev, lit>> /\ answer # "busy"
  BY DEF RefreshAny, Turns
<1>3. CASE answer' = "busy" /\ UNCHANGED faults
  <2>1. Promise!Begin
    BY <1>2, <1>3 DEF Promise!Begin
  <2> QED  BY <1>1, <1>2, <1>3, <2>1, FaultsGrow DEF Promise!Next, Promise!Use
<1>4. CASE answer' = "failed" /\ faults' > 0 /\ (Fault \/ UNCHANGED faults)
  <2>1. Promise!Fail
    BY <1>2, <1>4 DEF Promise!Fail
  <2> QED  BY <1>1, <1>2, <1>4, <2>1, FaultsGrow DEF Promise!Next, Promise!Use
<1>5. CASE dev.kind = "rmt"
  <2>1. RmtRefresh
    BY <1>5 DEF RefreshAny
  <2>2. CASE chan = "enabled" /\ answer' = "failed" /\ UNCHANGED <<chan, enc, faults>>
    BY <1>4, <2>2 DEF Turns
  <2>3. CASE Fault /\ answer' = "failed"
    BY <1>1, <1>4, <2>3, FaultCounts
  <2>4. CASE answer' = "busy" /\ UNCHANGED faults
    BY <1>3, <2>4
  <2> QED  BY <2>1, <2>2, <2>3, <2>4 DEF RmtRefresh
<1>6. CASE dev.kind # "rmt"
  BY <1>3, <1>6 DEF RefreshAny, SpiRefresh
<1> QED  BY <1>5, <1>6

LEMMA EncodeKeeps ==
    ASSUME StripInv, Turns, Encode
    PROVE  Keeps
<1>1. Shape /\ Sent /\ RestType
  BY DEF StripInv
<1>2. /\ pc = "wait" /\ dev # NoStrip /\ dev.kind = "rmt" /\ answer = "busy"
      /\ UNCHANGED <<dev, bpp, buf, faults>>
  BY <1>1 DEF Encode, Turns, Sent
<1>3. CASE enc'.ret = "complete"
  <2>1. pc' = "sent" /\ answer' = "shown" /\ lit' = Latched(Wire(enc'.wire))
    BY <1>3 DEF Encode
  <2>2. Len(buf) = dev.leds * bpp /\ dev.leds * bpp \in Nat
    BY <1>1, LenBuf
  <2>3. enc'.wire = 8 * (dev.leds * bpp)
    <3>1. Sent'
      BY <1>1, EncodeSent
    <3> QED  BY <1>2, <2>1, <3>1 DEF Sent
  <2>4. enc'.wire \in 0 .. 8 * (dev.leds * bpp) /\ enc'.wire \div 8 = Len(buf)
    BY <2>2, <2>3
  <2> DEFINE cells == Wire(enc'.wire)
  <2>5. Len(cells) = Len(buf) /\ \A m \in 1 .. Len(buf) : cells[m] = buf[m]
    BY <1>1, <1>2, <2>4, WireIs
  <2>6. lit' = Latched(cells)
    BY <2>1
  <2> HIDE DEF cells
  <2>7. Promise!Show
    BY <1>1, <1>2, <2>1, <2>5, <2>6, WholeShows
  <2> QED  BY <1>1, <1>2, <2>7, FaultsGrow DEF Keeps, Promise!Next, Promise!Use
<1>4. CASE enc'.ret # "complete"
  <2>1. UNCHANGED <<answer, lit>> /\ pix' = pix
    BY <1>1, <1>2, <1>4, UsedPix DEF Encode
  <2> QED  BY <1>2, <2>1 DEF Keeps, Promise!vars
<1> QED  BY <1>3, <1>4

LEMMA SpiTransmitKeeps ==
    ASSUME StripInv, Turns, SpiTransmit
    PROVE  Promise!Next
<1>1. Shape /\ Sent /\ RestType
  BY DEF StripInv
<1>2. /\ pc = "wait" /\ dev # NoStrip /\ answer = "busy" /\ UNCHANGED <<dev, bpp, buf>>
  BY <1>1 DEF SpiTransmit, Turns, Sent
<1>3. pix' = pix
  BY <1>1, <1>2, UsedPix
<1>4. CASE Fault /\ answer' = "failed" /\ UNCHANGED lit
  <2>1. faults' > 0
    BY <1>1, <1>4, FaultCounts
  <2>2. Promise!Fail
    BY <1>3, <1>4, <2>1 DEF Promise!Fail, Promise!KeepOrClear
  <2> QED  BY <1>1, <1>2, <1>4, <2>2, FaultsGrow DEF Promise!Next, Promise!Use
<1>5. CASE answer' = "shown" /\ lit' = Latched(buf) /\ UNCHANGED faults
  <2>1. Promise!Show
    BY <1>1, <1>2, <1>5, WholeShows
  <2> QED  BY <1>1, <1>2, <1>5, <2>1, FaultsGrow DEF Promise!Next, Promise!Use
<1> QED  BY <1>4, <1>5 DEF SpiTransmit

LEMMA RestartKeeps ==
    ASSUME StripInv, Restart
    PROVE  Promise!Next
<1>1. Shape /\ Sent
  BY DEF StripInv
<1>2. bpp \in {3, 4} /\ Leds \in Nat /\ Restarted /\ UNCHANGED faults
  BY <1>1, StripAssumption DEF Shape, Restart
<1>3. ASSUME NEW i \in 1 .. Leds, \A j \in 1 .. i : pix[j] # Unset
      PROVE  lit'[i] \in {lit[i], pix[i]} \/ Promise!Dark(lit'[i])
  <2>1. CASE \E n \in 0 .. Len(Sending) : lit' = Latched(SubSeq(Sending, 1, n))
    <3>1. /\ Len(Sending) \in Nat
          /\ \A m \in 1 .. Len(Sending) : m \in 1 .. Len(buf) /\ Sending[m] = buf[m]
      <4>1. Len(buf) = dev.leds * bpp /\ dev.leds * bpp \in Nat
        BY <1>1, LenBuf
      <4>2. CASE pc # "wait"
        <5>1. Sending = <<>>
          BY <4>2 DEF Sending
        <5> QED  BY <5>1
      <4>3. CASE pc = "wait" /\ dev.kind = "rmt"
        <5>1. dev # NoStrip /\ enc.wire \in 0 .. 8 * (dev.leds * bpp) /\ Sending = Wire(enc.wire)
          BY <1>1, <4>1, <4>3 DEF Sent, Sending
        <5>2. /\ Len(Sending) = enc.wire \div 8 /\ enc.wire \div 8 \in 0 .. Len(buf)
              /\ \A m \in 1 .. enc.wire \div 8 : Sending[m] = buf[m]
          BY <1>1, <5>1, WireIs
        <5> QED  BY <4>1, <5>2
      <4>4. CASE pc = "wait" /\ dev.kind # "rmt"
        <5>1. Sending = buf
          BY <4>4 DEF Sending
        <5> QED  BY <4>1, <5>1
      <4> QED  BY <4>2, <4>3, <4>4
    <3>2. PICK n \in 0 .. Len(Sending) : lit' = Latched(SubSeq(Sending, 1, n))
      BY <2>1
    <3> DEFINE cells == SubSeq(Sending, 1, n)
    <3>3. Len(cells) = n /\ \A m \in 1 .. n : cells[m] = Sending[m]
      BY <3>1
    <3>4. lit' = Latched(cells)
      BY <3>2
    <3> HIDE DEF cells
    <3>5. Len(cells) \in Nat /\ \A m \in 1 .. Len(cells) : m \in 1 .. Len(buf) /\ cells[m] = buf[m]
      BY <3>1, <3>3
    <3>6. (i * bpp <= Len(cells) => lit'[i] = pix[i]) /\ (i * bpp > Len(cells) => lit'[i] = lit[i])
      BY <1>1, <1>3, <3>4, <3>5, LatchShows
    <3>7. i * bpp <= Len(cells) \/ i * bpp > Len(cells)
      <4>1. i \in Nat
        BY <1>2
      <4>2. i * bpp \in Nat
        <5>1. CASE bpp = 3
          BY <4>1, <5>1
        <5>2. CASE bpp = 4
          BY <4>1, <5>2
        <5> QED  BY <1>2, <5>1, <5>2
      <4> QED  BY <3>5, <4>2
    <3> QED  BY <3>6, <3>7
  <2>2. CASE lit' = [j \in 1 .. Leds |-> [k \in 1 .. bpp |-> 0]]
    <3>1. lit'[i] = [k \in 1 .. bpp |-> 0]
      BY <2>2
    <3> QED  BY <1>2, <3>1, DarkPixel
  <2> QED  BY <2>1, <2>2 DEF Restart
<1> QED  BY <1>2, <1>3, RestartedKeeps

LEMMA NextKeeps ==
    ASSUME StripInv, Turns, HuesInRange, [StripNext]_stripVars
    PROVE  Keeps
<1>0. Shape /\ Owned /\ RestType
  BY DEF StripInv
<1>1. ASSUME NEW kind \in {"rmt", "spi"}, NEW leds \in 1 .. Leds, New(kind, leds)
      PROVE  Keeps
  <2>1. dev = NoStrip /\ UNCHANGED <<bpp, lit>>
    BY <1>1 DEF New
  <2>2. CASE Opened(kind, leds) /\ answer' = "ok" /\ UNCHANGED faults
    BY <2>1, <2>2, OpeningKeeps DEF Keeps
  <2>3. CASE Fault /\ answer' = "failed" /\ UNCHANGED <<dev, buf, chan>>
    <3>1. Promise!Open
      BY <1>0, <2>1, <2>3, UsedPix DEF Promise!Open
    <3> QED  BY <1>0, <2>3, <3>1, FaultsGrow DEF Keeps, Promise!Next
  <2> QED  BY <1>1, <2>2, <2>3 DEF New
<1>2. CASE SetLedStripColorFirst
  <2>1. dev = NoStrip /\ UNCHANGED lit /\ 1 \in 1 .. Leds
    BY <1>2, StripAssumption DEF SetLedStripColorFirst, Turns
  <2>2. CASE Opened("rmt", 1) /\ answer' = "ok" /\ UNCHANGED <<bpp, faults>>
    BY <2>1, <2>2, OpeningKeeps DEF Keeps
  <2>3. CASE Fault /\ Restarted
    BY <2>1, <2>3, RestartedKeeps DEF Keeps
  <2> QED  BY <1>2, <2>2, <2>3 DEF SetLedStripColorFirst
<1>3. ASSUME NEW i \in Indices, NEW c, c \in Colours \/ \E h \in Hues : c = HsvToRgb(h),
             SetPixel(i, c) \/ SetLedStripColor(i, c)
      PROVE  Keeps
  <2>1. i \in Int /\ Store(i, c) /\ UNCHANGED <<dev, bpp, lit, faults>>
    BY <1>3, StripAssumption DEF SetPixel, SetLedStripColor
  <2> QED  BY <1>3, <2>1, StoringKeeps DEF Keeps
<1>4. ASSUME NEW i \in Indices, NEW h \in Hues, SetPixelHsv(i, h)
      PROVE  Keeps
  BY <1>3, <1>4 DEF SetPixelHsv
<1>5. CASE Refresh
  <2>1. pix' = pix /\ RefreshAny /\ dev # NoStrip
    BY <1>0, <1>5, UsedPix DEF Refresh, RefreshAny
  <2>2. pc \notin {"wait", "sent"} /\ Promise!KeepOrClear
    BY <1>5, <2>1 DEF Refresh, Promise!KeepOrClear
  <2> QED  BY <2>1, <2>2, BeginningKeeps DEF Keeps
<1>6. CASE Clear
  <2>1. RefreshAny /\ dev # NoStrip /\ pc \notin {"wait", "sent"} /\ UNCHANGED <<dev, bpp>>
        /\ buf' = [n \in DOMAIN buf |-> Kept(dev.kind, 0)]
    BY <1>6 DEF Clear, RefreshAny
  <2>2. Promise!KeepOrClear
    BY <1>0, <2>1, ClearedPix DEF Promise!KeepOrClear
  <2> QED  BY <2>1, <2>2, BeginningKeeps DEF Keeps
<1>7. CASE Encode
  BY <1>7, EncodeKeeps
<1>8. CASE SpiTransmit
  BY <1>8, SpiTransmitKeeps DEF Keeps
<1>9. CASE RefreshReturn
  <2>1. answer = "shown" /\ answer' = "ok" /\ UNCHANGED <<dev, bpp, buf, lit, faults>>
    BY <1>9 DEF RefreshReturn, Turns
  <2>2. Promise!Return
    BY <1>0, <2>1, UsedPix DEF Promise!Return
  <2> QED  BY <1>0, <2>1, <2>2, FaultsGrow DEF Keeps, Promise!Next, Promise!Use
<1>10. CASE Del
  <2>1. /\ dev # NoStrip /\ UNCHANGED <<bpp, lit>> /\ answer' \in {"ok", "failed"}
        /\ (Fault \/ UNCHANGED faults)
    BY <1>10 DEF Del, RmtDel, SpiDel
  <2>2. CASE answer' = "ok"
    <3>1. dev' = NoStrip /\ dev'.leds = 0 /\ dev.leds # 0
      BY <1>0, <1>10, <2>2 DEF Del, NoStrip, Shape
    <3>2. pix' = [i \in Promise!Pixels |-> Unset]
      BY <1>0, <2>1, <3>1, ClosedPix
    <3>3. Promise!Open
      BY <2>1, <2>2, <3>1, <3>2 DEF Promise!Open
    <3> QED  BY <1>0, <2>1, <3>3, FaultsGrow DEF Keeps, Promise!Next
  <2>3. CASE answer' = "failed"
    <3>1. UNCHANGED <<dev, buf>>
      BY <1>10, <2>3 DEF Del
    <3>2. Promise!Open
      BY <1>0, <2>1, <2>3, <3>1, UsedPix DEF Promise!Open
    <3> QED  BY <1>0, <2>1, <3>2, FaultsGrow DEF Keeps, Promise!Next
  <2> QED  BY <2>1, <2>2, <2>3
<1>11. CASE Restart
  BY <1>11, RestartKeeps DEF Keeps
<1>12. CASE UNCHANGED stripVars
  <2>1. UNCHANGED <<dev, bpp, buf, lit, answer, faults>>
    BY <1>12 DEF stripVars
  <2> QED  BY <1>0, <2>1, UsedPix DEF Keeps, Promise!vars
<1> QED  BY <1>1, <1>2, <1>3, <1>4, <1>5, <1>6, <1>7, <1>8, <1>9, <1>10, <1>11, <1>12
         DEF StripNext, StripDriver

LEMMA InitKeeps == ASSUME StripInit PROVE StripInv /\ Turns /\ Promise!Init
<1>1. StripInv
  BY InitStrip
<1>2. Turns
  BY DEF StripInit, Turns
<1>3. bpp \in {3, 4} /\ dev = NoStrip /\ dev.leds = 0
  BY <1>1 DEF StripInv, Shape, StripInit, NoStrip
<1>4. pix = [i \in Promise!Pixels |-> Unset]
  <2>1. pix = ReadBack(dev.kind, dev.leds, bpp, buf)
    BY <1>3, PixReads
  <2>2. \A i \in 1 .. Leds : ~(i <= 0)
    BY StripAssumption
  <2> QED  BY <1>3, <2>1, <2>2 DEF ReadBack, Promise!Pixels
<1>5. ASSUME NEW i \in 1 .. Leds PROVE Promise!Dark(lit[i])
  <2>1. lit[i] = [k \in 1 .. bpp |-> 0]
    BY DEF StripInit
  <2> QED  BY <1>3, <2>1, DarkPixel
<1> QED  BY <1>1, <1>2, <1>3, <1>4, <1>5 DEF Promise!Init, Promise!Pixels, StripInit

\* For strips of any length, on either backend, whatever colours are asked for,
\* wherever the memory of the channel cuts them and whatever driver fails: what
\* a refresh shows are the last colours asked for, in order and complete, and it
\* fails only after a failure (led_strip_interface.h). Hues are those of the
\* wheel: a hue of 360 is another colour than 0 (led_strip_api.c).
THEOREM StripKeepsPromise == ASSUME HuesInRange PROVE StripSpec => KeepsPromise
<1>1. ASSUME StripInit PROVE StripInv /\ Turns /\ Promise!Init
  BY <1>1, InitKeeps
<1>2. ASSUME StripInv, Turns, [StripNext]_stripVars
      PROVE  StripInv' /\ Turns' /\ [Promise!Next]_Promise!vars
  BY <1>2, NextStrip, NextTurns, NextKeeps DEF Keeps
<1> QED  BY <1>1, <1>2, PTL DEF StripSpec, KeepsPromise, Promise!Spec
=============================================================================
