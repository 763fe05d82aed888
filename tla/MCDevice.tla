------------------------------- MODULE MCDevice -------------------------------
(***************************************************************************)
(* What is made of the reads of one inverter: the frames of raw registers  *)
(* that refreshes stage, and the batteries that updates show.  The two     *)
(* share no state, so a behaviour is one of one part, chosen at the start, *)
(* while the other rests.                                                  *)
(***************************************************************************)
EXTENDS RawSnapshot, BatteryIdentity, TLC

CONSTANTS
    token1, token2, unit,       \* two capabilities of one unit
    battery1, battery2,         \* batteries
    serial1, serial2,           \* their serials,
    id01, id02                  \* or Battery_ID_01 and Battery_ID_02

TwoTokens == {token1, token2}
OneUnit == {unit}
SharedUnit == [t \in TwoTokens |-> unit]

Alike == Permutations(TwoTokens)

TwoBatteries == {battery1, battery2}
FourSerials == {serial1, serial2, id01, id02}
Numbers == [n \in FourSerials |-> CASE n = id01 -> 1 [] n = id02 -> 2 [] OTHER -> 0]
Indices == battery1 :> 1 @@ battery2 :> 2
Positional == 1 :> battery1 @@ 2 :> battery2

Named == battery1 :> serial1 @@ battery2 :> serial2
Mixed == battery1 :> id01 @@ battery2 :> serial2
Twins == battery1 :> serial1 @@ battery2 :> serial1
Placeholders == battery1 :> id01 @@ battery2 :> id02
Banks == {Named, Mixed, Twins}
NamedBank == {Named}
PlaceholderBank == {Placeholders}

CONSTANT Parts      \* those of "frames", "bank" and "slots" to check
VARIABLE part       \* the one whose behaviour this is

\* A part that rests does so in one state.
DeviceInit ==
    /\ part \in Parts
    /\ Init
    /\ BatteryInit
    /\ part = "frames" => serialOf = CHOOSE bank \in Reports : TRUE
    /\ portal = (part = "bank")

\* A session with a portal and maybe one after it in either mode, with a slot for
\* each battery, or none for twins; or sessions without, with one more slot.
BatteryPart ==
    /\ BatteryNext
    /\ part = "bank" => Len(rows') <= IF serialOf = Twins THEN 0 ELSE 2
    /\ part = "slots" => ~portal'

DeviceNext ==
    /\ part' = part
    /\ \/ part = "frames" /\ Next /\ UNCHANGED batteryVars
       \/ part \in {"bank", "slots"} /\ BatteryPart /\ UNCHANGED vars

DeviceSpec == DeviceInit /\ [][DeviceNext]_<<vars, batteryVars, part>>

=============================================================================
