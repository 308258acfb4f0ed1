---------------------------- MODULE MCCommander ----------------------------
(* Instances of Commander for TLC: an air conditioner, a light, a switch   *)
(* and an Ecocute, whose commands may have a pre-set.                      *)
EXTENDS Commander

All == {handleClimatePower, handleClimateModeOff, handleClimateTemperature,
        handleClimateFanMode, handleLightPower, handleLightBrightness,
        handleLightEffect, handleClimateMode, executeWritableSet,
        executeWritablePreSet, executeWritableSetI}
OnlyMode == {handleClimateMode}
\* Everything off, or everything as the pre-sets leave it.
AllOffOrOn == {[e \in EPCs |-> v] : v \in Values}
AnyPayload == Values \cup {Nil}
=============================================================================
