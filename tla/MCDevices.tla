----------------------------- MODULE MCDevices ------------------------------
(***************************************************************************)
(* Devices with its times scaled down: a sector passes in 3 system ticks,  *)
(* three sectors a track.  The timer goes off every 2 or 4 ticks.          *)
(***************************************************************************)
EXTENDS Devices

MCInputs == {<<"a", "b", "q">>, <<"a", "b", "b", "q", "a">>, <<"a", EOF, "b", "q", "a">>}
=============================================================================
