------------------------------ MODULE LedStrip -------------------------------
(***************************************************************************)
(* The LED strip: setLedStripColor (main/strip.c) and the component        *)
(* espressif__led_strip under it, with its RMT and its SPI backend. The    *)
(* caller is the console, through strip.c, or any client of led_strip.h.   *)
(* The RMT and SPI drivers belong to ESP-IDF, the LEDs to the hardware.    *)
(***************************************************************************)
EXTENDS Integers, Sequences, FiniteSets, FiniteSetsExt

CONSTANTS
    Callers,   \* who uses the component: "firmware", "client"
    Leds,      \* length of the strip
    Formats,   \* bytes per pixel of the strips: 3 (GRB), 4 (GRBW)
    Indices,   \* the pixel numbers asked for
    Colours,   \* the colours asked for: red, green, blue and perhaps white
    Hues,      \* the colours asked for by set_pixel_hsv
    Symbols,   \* mem_block_symbols of the RMT channel
    Unset,     \* a pixel that has no colour yet
    MaxFaults  \* bound on failures of the drivers and of malloc

ASSUME StripAssumption ==
    /\ Callers \subseteq {"firmware", "client"} /\ Leds \in Nat \ {0}
    /\ Formats \subseteq {3, 4} /\ Indices \subseteq Int
    /\ Symbols \in Nat \ {0} /\ Symbols % 2 = 0 /\ MaxFaults \in Nat
    /\ \A c \in Colours : c \in Seq(Int) /\ Len(c) \in {3, 4}
    /\ \A h \in Hues : h.hue \in Nat /\ h.saturation \in Nat /\ h.value \in Nat

ASSUME UnsetAssumption == \A n \in {3, 4} : Unset \notin [1 .. n -> 0 .. 255]

VARIABLES
    caller,       \* who uses the component; never changes
    bpp,          \* bytes_per_pixel, as the strip takes them; never changes
    initialized,  \* the static of setLedStripColor
    dev,          \* the strip object: backend and strip_len
    held,         \* what has been allocated and not freed
    buf,          \* pixel_buf, one element per colour byte
    chan,         \* the RMT channel: "none", "init", "enabled"
    enc,          \* the strip encoder: its state and ret_state, the next symbol of
                  \* its bytes encoder, and how many symbols have been encoded
    lit,          \* the colours the LEDs show
    pc,           \* where the call is
    answer,       \* what the last call returned
    faults        \* failures so far

stripVars ==
    <<caller, bpp, initialized, dev, held, buf, chan, enc, lit, pc, answer, faults>>

NoStrip == [kind |-> "none", leds |-> 0]
Fault == faults < MaxFaults /\ faults' = faults + 1

-----------------------------------------------------------------------------
\* How a colour byte is kept: as it is, or as 24 bits for the SPI: 100 for
\* a bit that is 0 and 110 for a 1.
SpiBits(d) ==
    LET b(k) == (d \div 2^k) % 2
    IN  <<128 + 64 * b(7) + 16 + 8 * b(6) + 2 + b(5),
          64 + 32 * b(4) + 8 + 4 * b(3) + 1,
          128 * b(2) + 32 + 16 * b(1) + 4 + 2 * b(0)>>
KeptWide(kind, byte) == IF kind = "spi" THEN SpiBits(byte) ELSE byte
Kept(kind, byte) == IF kind = "spi" THEN SpiBits(byte % 256) ELSE byte % 256
Zeroed(kind) == IF kind = "spi" THEN <<0, 0, 0>> ELSE 0

\* The order in which the strip takes the components.
Order(c) == <<c[2], c[1], c[3], IF Len(c) = 4 THEN c[4] ELSE 0>>

HsvToRgb(h) ==
    LET low  == (h.value * (255 - h.saturation)) \div 255
        adj  == ((h.value - low) * (h.hue % 60)) \div 60
        high == h.value
    IN  CASE h.hue \div 60 = 0 -> <<high, low + adj, low>>
          [] h.hue \div 60 = 1 -> <<high - adj, high, low>>
          [] h.hue \div 60 = 2 -> <<low, high, low + adj>>
          [] h.hue \div 60 = 3 -> <<low, high - adj, high>>
          [] h.hue \div 60 = 4 -> <<low + adj, low, high>>
          [] OTHER -> <<high, low, high - adj>>

\* The LEDs. A colour byte is on the wire once 24 bits of the SPI or 8
\* symbols of the RMT are; three low bits of the SPI are no bit of a colour.
Group(cell, k) == ((cell[1] * 65536 + cell[2] * 256 + cell[3]) \div 8^k) % 8
Reading(cell) == LET b(k) == (Group(cell, k) \div 2) % 2
              IN  b(0) + 2 * b(1) + 4 * b(2) + 8 * b(3) + 16 * b(4) + 32 * b(5) + 64 * b(6) + 128 * b(7)
Legible == {cell \in {SpiBits(d) : d \in 0 .. 255} : \A k \in 0 .. 7 : Group(cell, k) \in {4, 6}}
ByteAt == [cell \in Legible |-> Reading(cell)]
IsByte(cell) == dev.kind = "spi" => cell \in Legible
Byte(cell) == IF dev.kind = "spi" THEN ByteAt[cell] ELSE cell
PixelOf(cells) == LET p == [k \in 1 .. bpp |-> Byte(cells[k])]
                  IN  [p EXCEPT ![1] = p[2], ![2] = p[1]]
PixelAt(cells, i) == PixelOf([k \in 1 .. bpp |-> cells[(i - 1) * bpp + k]])

\* Which cells are colour bytes, and which is the n-th of these.
Codes(cells) == {m \in 1 .. Len(cells) : IsByte(cells[m])}
Nth(codes, n) == CHOOSE m \in codes : Cardinality({k \in codes : k <= m}) = n
Latched(cells) ==
    LET codes == Codes(cells)
    IN  [i \in 1 .. Leds |->
           IF i * bpp > Cardinality(codes) THEN lit[i]
           ELSE PixelOf([k \in 1 .. bpp |-> cells[Nth(codes, (i - 1) * bpp + k)]])]

-----------------------------------------------------------------------------
\* What creation acquires, in this order; a step that fails has its own
\* error path, after the one of the step inside it.
Parts(kind) ==
    IF kind = "rmt" THEN <<"object", "channel", "encoder", "bytes_encoder", "copy_encoder">>
    ELSE <<"object", "bus", "device">>
EncoderParts == {"encoder", "bytes_encoder", "copy_encoder"}

\* err: of rmt_new_led_strip_encoder: what is left of what was acquired.
EncoderErrorLeaky(got) == got \ {"encoder", "copy_encoder"}
EncoderError(got) == got \ EncoderParts
\* err: of led_strip_new_rmt_device, where the encoder has failed as a whole,
\* and of led_strip_new_spi_device.
CreateError(kind, got) ==
    IF kind = "rmt" THEN EncoderError(got) \ {"channel", "object"}
    ELSE got \ {"device", "bus", "object"}

Opened(kind, leds) ==
    /\ dev' = [kind |-> kind, leds |-> leds]
    /\ held' = {Parts(kind)[n] : n \in 1 .. Len(Parts(kind))}
    /\ buf' = [n \in 1 .. leds * bpp |-> Zeroed(kind)]
    /\ chan' = IF kind = "rmt" THEN "init" ELSE "none"

\* led_strip_new_rmt_device, led_strip_new_spi_device
New(kind, leds) ==
    /\ caller = "client" /\ pc = "idle" /\ dev = NoStrip
    /\ \/ Opened(kind, leds) /\ answer' = "ok" /\ UNCHANGED faults
       \/ /\ Fault
          /\ \E n \in 0 .. Len(Parts(kind)) - (IF kind = "rmt" THEN 1 ELSE 0) :
               held' = CreateError(kind, {Parts(kind)[m] : m \in 1 .. n})
          /\ answer' = "failed" /\ UNCHANGED <<dev, buf, chan>>
    /\ UNCHANGED <<caller, bpp, initialized, enc, lit, pc>>

Restarted ==
    /\ initialized' = FALSE /\ dev' = NoStrip /\ held' = {} /\ buf' = <<>>
    /\ chan' = "none" /\ pc' = "idle" /\ answer' = "ok"
    /\ UNCHANGED <<caller, bpp, enc>>

\* The first call of setLedStripColor: one LED, and abort if that fails.
SetLedStripColorFirst ==
    /\ caller = "firmware" /\ pc = "idle" /\ ~initialized
    /\ \/ /\ Opened("rmt", 1) /\ initialized' = TRUE /\ pc' = "created"
          /\ answer' = "ok" /\ UNCHANGED <<caller, bpp, enc, faults>>
       \/ Fault /\ Restarted
    /\ UNCHANGED lit

-----------------------------------------------------------------------------
\* set_pixel and set_pixel_rgbw of both backends.
Store(i, c) ==
    IF i \in 0 .. dev.leds - 1 /\ (Len(c) = 4 => bpp = 4)
    THEN /\ buf' = [n \in 1 .. Len(buf) |->
                      IF n > i * bpp /\ n <= (i + 1) * bpp
                      THEN Kept(dev.kind, Order(c)[n - i * bpp]) ELSE buf[n]]
         /\ answer' = "ok"
    ELSE UNCHANGED buf /\ answer' = "invalid"

SetPixel(i, c) ==
    /\ caller = "client" /\ pc = "idle" /\ dev # NoStrip
    /\ Store(i, c)
    /\ UNCHANGED <<caller, bpp, initialized, dev, held, chan, enc, lit, pc, faults>>

SetPixelHsv(i, h) == SetPixel(i, HsvToRgb(h))

\* Every call of setLedStripColor, which takes no notice of the answer.
SetLedStripColor(i, c) ==
    /\ caller = "firmware" /\ Len(c) = 3
    /\ pc = "created" \/ (pc = "idle" /\ initialized)
    /\ Store(i, c) /\ pc' = "set"
    /\ UNCHANGED <<caller, bpp, initialized, dev, held, chan, enc, lit, faults>>

-----------------------------------------------------------------------------
\* Of rmt_encode_led_strip: 1 when the colours are encoded and the reset
\* code has still to be.
StateForgotten(complete, full) == 0
State(complete, full) == IF complete /\ full THEN 1 ELSE 0

\* rmt_encode_led_strip, called by the driver with room for so many symbols:
\* eight symbols for each colour byte, then the reset code. The bytes encoder
\* reports both COMPLETE and MEM_FULL when the last bit fills the memory, and
\* starts again from the first byte once it is complete. What is sent after
\* the last LED's colour is lost.
Encoded(e, room) ==
    LET left     == 8 * Len(buf) - e.next
        complete == e.state = 0 => left <= room
        full     == e.state = 0 /\ left >= room
        taken    == IF e.state = 1 THEN 0 ELSE IF complete THEN left ELSE room
    IN  [next  |-> IF complete THEN 0 ELSE e.next + room,
         wire  |-> Min({e.wire + taken, 8 * Leds * bpp}),
         state |-> State(complete, full),
         ret   |-> IF complete /\ ~full THEN "complete" ELSE "full"]
Reset == [next |-> 0, wire |-> 0, state |-> 0, ret |-> "full"]
Wire(symbols) == [n \in 1 .. symbols \div 8 |-> buf[((n - 1) % Len(buf)) + 1]]

\* led_strip_rmt_refresh up to the wait: the channel must be off, and it
\* stays on when rmt_transmit fails. rmt_transmit resets the encoder and has
\* it fill the memory.
RmtRefresh ==
    \/ chan = "enabled" /\ answer' = "failed" /\ UNCHANGED <<chan, enc, faults>>
    \/ chan = "init" /\ Fault /\ answer' = "failed" /\ chan' \in {"init", "enabled"} /\ UNCHANGED enc
    \/ /\ chan = "init" /\ chan' = "enabled"
       /\ enc' = Reset /\ answer' = "busy" /\ UNCHANGED faults
SpiRefresh ==
    /\ answer' = "busy" /\ UNCHANGED <<chan, enc, faults>>
RefreshAny ==
    /\ IF dev.kind = "rmt" THEN RmtRefresh ELSE SpiRefresh
    /\ pc' = IF answer' = "busy" THEN "wait" ELSE "idle"
    /\ UNCHANGED <<caller, bpp, initialized, dev, held, lit>>

Refresh ==
    /\ dev # NoStrip /\ pc = IF caller = "firmware" THEN "set" ELSE "idle"
    /\ RefreshAny /\ UNCHANGED buf

Clear ==
    /\ dev # NoStrip /\ caller = "client" /\ pc = "idle"
    /\ RefreshAny /\ buf' = [n \in DOMAIN buf |-> Kept(dev.kind, 0)]

\* The driver asks for symbols: at first for the whole memory, then each
\* time half of it has been sent.
Encode ==
    /\ pc = "wait" /\ dev.kind = "rmt"
    /\ enc' = Encoded(enc, IF enc.wire = 0 THEN Symbols ELSE Symbols \div 2)
    /\ IF enc'.ret = "complete"
       THEN pc' = "sent" /\ answer' = "shown" /\ lit' = Latched(Wire(enc'.wire))
       ELSE UNCHANGED <<pc, answer, lit>>
    /\ UNCHANGED <<caller, bpp, initialized, dev, held, buf, chan, faults>>

\* spi_device_transmit
SpiTransmit ==
    /\ pc = "wait" /\ dev.kind = "spi"
    /\ \/ Fault /\ pc' = "idle" /\ answer' = "failed" /\ UNCHANGED lit
       \/ pc' = "sent" /\ answer' = "shown" /\ lit' = Latched(buf) /\ UNCHANGED faults
    /\ UNCHANGED <<caller, bpp, initialized, dev, held, buf, chan, enc>>

RefreshReturnOn ==
    /\ pc = "sent" /\ pc' = "idle" /\ answer' = "ok"
    /\ UNCHANGED <<caller, bpp, initialized, dev, held, buf, chan, enc, lit, faults>>

\* The rest of a refresh: the RMT channel is turned off.
RefreshReturn ==
    /\ pc = "sent" /\ pc' = "idle" /\ answer' = "ok"
    /\ chan' = IF dev.kind = "rmt" THEN "init" ELSE chan
    /\ UNCHANGED <<caller, bpp, initialized, dev, held, buf, enc, lit, faults>>

-----------------------------------------------------------------------------
\* rmt_del_channel refuses a channel that is enabled; a client does not use
\* a strip again that it could delete only in part.
RmtDel ==
    \/ chan = "enabled" /\ answer' = "failed" /\ UNCHANGED <<held, chan, faults>>
    \/ /\ chan = "init" /\ chan' = "none" /\ UNCHANGED faults
       /\ held' = (held \ {"channel", "object"}) \ EncoderParts /\ answer' = "ok"
SpiDel ==
    /\ \/ Fault /\ answer' = "failed" /\ held' \in {held, held \ {"device"}}
       \/ held' = held \ {"device", "bus", "object"} /\ answer' = "ok" /\ UNCHANGED faults
    /\ UNCHANGED chan
Del ==
    /\ caller = "client" /\ pc = "idle" /\ dev # NoStrip
    /\ IF dev.kind = "rmt" THEN RmtDel ELSE SpiDel
    /\ IF answer' = "ok" THEN dev' = NoStrip /\ buf' = <<>> ELSE UNCHANGED <<dev, buf>>
    /\ pc' = IF "device" \in held \ held' /\ answer' # "ok" THEN "given up" ELSE "idle"
    /\ UNCHANGED <<caller, bpp, initialized, enc, lit>>

\* The chip restarts, perhaps while the LEDs take a transmission, and
\* perhaps because the power, which the LEDs share, is off.
Sending == IF pc # "wait" THEN <<>>
           ELSE IF dev.kind = "rmt" THEN Wire(enc.wire) ELSE buf
Restart ==
    /\ Restarted /\ UNCHANGED faults
    /\ \/ \E n \in 0 .. Len(Sending) : lit' = Latched(SubSeq(Sending, 1, n))
       \/ lit' = [i \in 1 .. Leds |-> [k \in 1 .. bpp |-> 0]]

-----------------------------------------------------------------------------
StripInit ==
    /\ caller \in Callers
    /\ bpp \in IF caller = "firmware" THEN {3} ELSE Formats
    /\ initialized = FALSE /\ dev = NoStrip /\ held = {} /\ buf = <<>> /\ chan = "none"
    /\ enc = Reset /\ lit = [i \in 1 .. Leds |-> [k \in 1 .. bpp |-> 0]]
    /\ pc = "idle" /\ answer = "ok" /\ faults = 0

StripDriver == Encode \/ SpiTransmit \/ RefreshReturn
StripNext ==
    \/ \E kind \in {"rmt", "spi"}, leds \in 1 .. Leds : New(kind, leds)
    \/ SetLedStripColorFirst
    \/ \E i \in Indices, c \in Colours : SetPixel(i, c) \/ SetLedStripColor(i, c)
    \/ \E i \in Indices, h \in Hues : SetPixelHsv(i, h)
    \/ Refresh \/ Clear \/ StripDriver \/ Del \/ Restart
StripSpec == StripInit /\ [][StripNext]_stripVars /\ WF_stripVars(StripDriver)

-----------------------------------------------------------------------------
\* Every variable has its type.
StripTypeOK ==
    /\ caller \in Callers /\ bpp \in {3, 4} /\ initialized \in BOOLEAN
    /\ dev \in [kind : {"none", "rmt", "spi"}, leds : 0 .. Leds]
    /\ held \subseteq {"object", "channel", "bus", "device"} \cup EncoderParts
    /\ Len(buf) = dev.leds * bpp
    /\ \A n \in 1 .. Len(buf) :
         IF dev.kind = "spi" THEN buf[n] \in Seq(0 .. 255) ELSE buf[n] \in 0 .. 255
    /\ chan \in {"none", "init", "enabled"}
    /\ enc \in [next : Nat, wire : Nat, state : {0, 1}, ret : {"complete", "full"}]
    /\ \A i \in 1 .. Leds : Len(lit[i]) = bpp
    /\ pc \in {"idle", "created", "set", "wait", "sent", "given up"}
    /\ answer \in {"ok", "invalid", "failed", "busy", "shown"} /\ faults \in 0 .. MaxFaults

\* A creation that fails at any of its steps, and a deletion that succeeds,
\* leave no channel, encoder, bus, device or memory allocated.
NothingLeft == dev = NoStrip => held = {} /\ chan = "none"

\* The strip keeps the promises of led_strip_interface.h: the pixels that a
\* refresh shows are the last colours asked for, in the right order and with
\* every component, and only a failed driver makes it fail.
pix == [i \in 1 .. Leds |->
          IF i <= dev.leds /\ \A k \in 1 .. bpp : IsByte(buf[(i - 1) * bpp + k])
          THEN PixelAt(buf, i) ELSE Unset]
Promise == INSTANCE PixelStrip WITH inUse <- dev.leds
KeepsPromise == Promise!Spec

\* Every refresh that begins returns.
RefreshReturns == pc = "wait" ~> pc = "idle"
=============================================================================
