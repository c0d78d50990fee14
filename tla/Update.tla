------------------------------- MODULE Update --------------------------------
(***************************************************************************)
(* What an update over the air is meant to be: the device runs an image,   *)
(* another one is chosen all at once or not at all, and the next reset     *)
(* runs the one chosen. An update that is not complete cannot be seen.     *)
(***************************************************************************)
CONSTANTS
    Images,       \* the app images
    FactoryImage, \* the image the device left the factory with
    NoImage       \* no update has just succeeded

VARIABLES
    image,        \* the image that runs
    chosen,       \* the image a reset would run
    outcome       \* the image that has been reported as installed

vars == <<image, chosen, outcome>>

Init == image = FactoryImage /\ chosen = FactoryImage /\ outcome = NoImage

Install ==
    /\ chosen' \in Images /\ outcome' = chosen'
    /\ UNCHANGED image
Boot ==
    /\ image' = chosen /\ outcome' = NoImage
    /\ UNCHANGED chosen

Next == Install \/ Boot
Spec == Init /\ [][Next]_vars
=============================================================================
