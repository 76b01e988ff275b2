------------------------------ MODULE MCSen54 ------------------------------
(* Values of the constants of Sen54 for TLC.  3600 s has the bit of the    *)
(* fan error in its binary form, as 16 (1.6 ug/m3 of PM2.5) has.           *)
EXTENDS Sen54

NoInterval == {}
MCInterval == {3600}
NoFault == {}
MCFault == {160}
MCMeasured == {16}
AllCommands == 1 .. 4
EnableOnly == {2}
=============================================================================
