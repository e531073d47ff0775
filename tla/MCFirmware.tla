----------------------------- MODULE MCFirmware -----------------------------
(***************************************************************************)
(* Settings that work, settings of a network that is gone, and a list of   *)
(* each kind: a screen with a list of the state, one with a list of the    *)
(* details, and the one that only has a refresh.                           *)
(***************************************************************************)
EXTENDS Firmware

Here == [k \in Keys |-> CASE k = "ssid" -> "net" [] k = "password" -> "pw"
                          [] k = "bridge" -> "url" [] k = "token" -> "tok"
                          [] k = "bright" -> 140]

Elsewhere == [k \in Keys |-> CASE k = "ssid" -> "oldnet" [] k = "password" -> "oldpw"
                               [] k = "bridge" -> "oldurl" [] k = "token" -> "oldtok"
                               [] k = "bright" -> 220]

MCForms == {Here, Elsewhere}
MCNetworks == {[ssid |-> "net", password |-> "pw"]}
MCBridges == {[bridge |-> "url", token |-> "tok"]}
MCScreens == <<"alert", "trend", None>>
=============================================================================
