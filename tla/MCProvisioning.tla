--------------------------- MODULE MCProvisioning ---------------------------
(* Provisioning with a table of three variables: the flag, the name, the ID. *)
EXTENDS Provisioning, TLC

\* A name that leaves room for the manufacturer data and one that does not.
ShortName == "MyRemoteDevice"
LongName == "MyRemoteDeviceInTheAttic"

MCStrings == {"initialized", "not initialized", "", ShortName, LongName,
              "7", "12", "263", "nimble"}
MCGapNames == {ShortName, LongName, "nimble"}
MCAdvNames == {ShortName, "nimble"}
MCDefaultValue == <<"not initialized", ShortName, "">>
MCSize == [s \in MCStrings \cup {Garbage} |->
    CASE s = "initialized" -> 12 [] s = "not initialized" -> 16 [] s = "" -> 1
      [] s = ShortName -> 15 [] s = LongName -> 25 [] s = "nimble" -> 7
      [] s = "7" -> 2 [] s \in {"263", "12"} -> 4 [] OTHER -> 3]
MCAtoI == [s \in MCStrings |->
    CASE s = "7" -> 7 [] s = "12" -> 12 [] s = "263" -> 263 [] OTHER -> 0]

\* What a central writes: the name and the ID, the ID alone, or the flag.
NameAndId == (2 :> "nimble") @@ (3 :> "263")
IdOnly == 3 :> "12"
FlagOnly == 1 :> "not initialized"

WholePayloads == {NameAndId}
IdOnlyPayloads == {IdOnly}
FlagPayloads == {NameAndId, FlagOnly}

\* The names that the operator sets, on any key: the one makes room for the
\* manufacturer data, the other takes it.
ShortAndLongName == {ShortName, LongName}

\* A device that is new, and one that was provisioned.
Blank == <<Absent, Absent, Absent>>
Commissioned == <<"initialized", ShortName, "7">>
NewDevice == {Blank}
OldDevice == {Commissioned}
AnyDevice == {Blank, Commissioned}

\* Leaves out the race of app_main with the host task, so that faults and
\* commands can be explored in every combination after it.
Calm == Booted \/ At("host", "presync")

\* The operator gives the long name to nothing but the name.
CalmLongName == Calm /\ LongName \notin {nvs[InitVar], nvs[IdVar]}
=============================================================================
