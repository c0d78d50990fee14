----------------------------- MODULE PixelStrip ------------------------------
(***************************************************************************)
(* What led_strip_interface.h promises its caller: colours are kept until  *)
(* a refresh, a refresh that returns ESP_OK has shown every one of them,   *)
(* and a refresh fails only when the driver under it has failed once.      *)
(* Pixels that have no colour yet are Unset; what a strip shows from the   *)
(* first of those on is not promised.                                      *)
(***************************************************************************)
EXTENDS Integers

CONSTANTS
    Leds,     \* length of the strip
    Colours,  \* the colours asked for, as numbers of any size per component
    Hues,     \* those asked for as hue, saturation and value
    Unset     \* a pixel that has no colour yet

VARIABLES
    inUse,    \* how many pixels the caller uses; none before it opens the strip
    pix,      \* the colours kept
    lit,      \* the colours shown
    answer,   \* of the last call: "ok", "invalid" or "failed"; "busy" or
              \* "shown" while a refresh runs
    faults    \* failures of the driver under the strip

vars == <<inUse, pix, lit, answer, faults>>

Pixels == 1 .. Leds
Dark(p) == p # Unset /\ \A k \in DOMAIN p : p[k] = 0

\* The colour c, on a strip that may have a white component besides.
IsColour(p, c) ==
    /\ p # Unset /\ DOMAIN c \subseteq DOMAIN p
    /\ \A k \in DOMAIN p : p[k] = IF k \in DOMAIN c THEN c[k] % 256 ELSE 0

\* On the wheel of hues a component is at its highest up to 60 degrees from
\* its own hue, at its lowest from 120 degrees on, and linear in between.
Away(hue, own) == LET d == IF hue > own THEN hue - own ELSE own - hue
                  IN  IF d > 180 THEN 360 - d ELSE d
Share(hue, own) == LET a == Away(hue, own)
                   IN  IF a <= 60 THEN 60 ELSE IF a >= 120 THEN 0 ELSE 120 - a
IsHue(p, h) ==
    LET low == (h.value * (255 - h.saturation)) \div 255
        own == <<0, 120, 240>>
    IN  /\ p # Unset
        /\ \A k \in 1 .. 3 :
             60 * (p[k] - low) - (h.value - low) * Share(h.hue, own[k]) \in -59 .. 59
        /\ \A k \in DOMAIN p \ (1 .. 3) : p[k] = 0

Init ==
    /\ inUse = 0 /\ pix = [i \in Pixels |-> Unset]
    /\ \A i \in Pixels : Dark(lit[i])
    /\ answer = "ok" /\ faults = 0

\* A strip is opened or deleted, or this fails.
Open ==
    /\ IF inUse' = inUse THEN pix' = pix
       ELSE \A i \in Pixels : pix'[i] = Unset \/ Dark(pix'[i])
    /\ lit' = lit /\ answer' = IF inUse' = inUse THEN "failed" ELSE "ok"

Paint ==
    /\ \E i \in 1 .. inUse :
         /\ (\E c \in Colours : IsColour(pix'[i], c)) \/ (\E h \in Hues : IsHue(pix'[i], h))
         /\ \A j \in Pixels \ {i} : pix'[j] = pix[j]
    /\ lit' = lit /\ answer' = "ok"

Refuse == pix' = pix /\ lit' = lit /\ answer' = "invalid"

\* A refresh begins, or a clear, which turns the pixels dark first.
KeepOrClear == pix' = pix \/ \A i \in 1 .. inUse : Dark(pix'[i])
Begin == answer # "busy" /\ answer' = "busy" /\ KeepOrClear /\ lit' = lit
Show ==
    /\ answer = "busy" /\ answer' = "shown" /\ pix' = pix
    /\ \A i \in Pixels :
         IF i > inUse THEN (\A j \in 1 .. inUse : pix[j] # Unset) => lit'[i] = lit[i]
         ELSE (\A j \in 1 .. i : pix[j] # Unset) => lit'[i] = pix[i]
Return == answer = "shown" /\ answer' = "ok" /\ pix' = pix /\ lit' = lit
Fail == answer' = "failed" /\ faults' > 0 /\ KeepOrClear /\ lit' = lit

\* The chip restarts and the strip is closed: a refresh under way may reach
\* some of the LEDs only, and the LEDs may lose their power too.
Restart ==
    /\ inUse' = 0 /\ pix' = [i \in Pixels |-> Unset] /\ answer' = "ok"
    /\ \A i \in Pixels : (\A j \in 1 .. i : pix[j] # Unset) =>
         lit'[i] \in {lit[i], pix[i]} \/ Dark(lit'[i])

Use == Paint \/ Refuse \/ Begin \/ Show \/ Return \/ Fail
Next == faults' >= faults /\ (Open \/ (Use /\ inUse' = inUse) \/ Restart)

Spec == Init /\ [][Next]_vars
=============================================================================
