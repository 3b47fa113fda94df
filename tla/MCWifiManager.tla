---------------------------- MODULE MCWifiManager ----------------------------
(* Two networks and two passwords; one pair is right. *)
EXTENDS WifiManager

CONSTANTS home, away, right, wrong

MCSsids == {home, away}
MCPasswords == {right, wrong}
MCValid == {[ssid |-> home, password |-> right]}
=============================================================================
