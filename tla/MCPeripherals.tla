---------------------------- MODULE MCPeripherals ----------------------------
(***************************************************************************)
(* Peripherals, small. The memory of the RMT channel is scaled down with   *)
(* the strip: one GRB pixel fills it exactly, one GRBW pixel does not fit, *)
(* and two of either take two or more refills.                             *)
(***************************************************************************)
EXTENDS Peripherals

MCIndices == {-1, 0, 1, 2}
MCColours == {<<255, 0, 7>>, <<300, 1, -1, 8>>}
MCHues == {[hue |-> 200, saturation |-> 100, value |-> 200]}

\* A host alone, with a port, too long for the buffer, empty; a path that
\* holds a URL; no scheme.
H == <<"h", "o">>
MCAddresses == {
    [scheme |-> <<"s">>, host |-> H, path |-> <<>>],
    [scheme |-> <<"s">>, host |-> H \o <<":", "8">>, path |-> <<"/", "p">>],
    [scheme |-> <<"s">>, host |-> H \o H \o H, path |-> <<"/">>],
    [scheme |-> <<"s">>, host |-> <<>>, path |-> <<"/", "/">>],
    [scheme |-> <<"s", "s">>, host |-> H, path |-> <<"/", "s", ":", "/", "/", "x">>],
    [scheme |-> <<>>, host |-> H, path |-> <<"/", "p">>]}

\* HsvToRgb on the whole wheel of hues.
ASSUME HuesRight ==
    \A h \in [hue : 0 .. 359, saturation : {0, 1, 100, 254, 255}, value : {0, 1, 77, 255}] :
        Promise!IsHue(HsvToRgb(h), h)
=============================================================================
