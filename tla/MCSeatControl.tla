---------------------------- MODULE MCSeatControl ----------------------------
EXTENDS SeatControl, TLC

CONSTANTS unit, script, bare, c1, c2, b1, b2, b3

MCTemplate == unit :> "systemd-user" @@ script :> "control-script" @@ bare :> "bare-command"

\* Bridges are alike: the first call is made at the first one.
MCHomeOf == c1 :> {b1} @@ c2 :> {b1, b2, b3}

\* The third bridge knows the host by another name.
MCNameOf == b1 :> "alias" @@ b2 :> "alias" @@ b3 :> "address"
=============================================================================
