------------------------------- MODULE MCMstp -------------------------------
(* Values of the constants of Mstp for TLC.                                *)
EXTENDS Mstp

TwoStations == {0, 2}
ThreeStations == {0, 1, 2}
NoData == {}

(* Station 0 has requests for station 2, which broadcasts now and then.    *)
RequestsAndBroadcasts ==
  {<<"DATA_EXPECTING_REPLY", 0, 2>>, <<"DATA_NOT_EXPECTING_REPLY", 2, 255>>}
=============================================================================
