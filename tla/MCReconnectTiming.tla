------------------------------ MODULE MCReconnectTiming ------------------------------
(* ReconnectTiming with a schedule whose first step is below the recycle delay,   *)
(* one step equal to the others' order of magnitude, and a longest step above it. *)
EXTENDS ReconnectTiming

MCDelays == <<1, 2, 4>>
=======================================================================================
