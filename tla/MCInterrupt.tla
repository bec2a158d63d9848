----------------------------- MODULE MCInterrupt -----------------------------
(* An instance of Devices for TLC. *)
EXTENDS Devices, TLC

CONSTANTS timer, sender, network

MCOneShot == {TheDisk, Display, sender}
MCPoller == {Keyboard, network}
MCDelay == (timer :> {1, 3}) @@ (sender :> {1, 3}) @@ (network :> {3}) @@ (Keyboard :> {ConsoleTime})
MCTyped == {<< >>, <<"a", "q", "b">>, <<"b", "a">>}
=============================================================================
