-------------------------- MODULE MCViconLocalizer ---------------------------
(* TLC instance of ViconLocalizer. *)
EXTENDS ViconLocalizer

\* Rotations commute with each other, but not with an exchange.
Rotation == <<2, 3, 1>>
Exchange == <<2, 1, 3>>
OtherExchange == <<1, 3, 2>>
SomeOdometry == {Rotation, Exchange}
SomeTracked == {Rotation, OtherExchange}
=============================================================================
