----------------------------- MODULE MCProviders -----------------------------
(* A Grid'5000 provider and a FIT IoT-LAB one, as in the multi-provider    *)
(* tutorial, with walltimes short enough to be used up by the margins.     *)
EXTENDS Providers

MCKind == <<"g5k", "iotlab">>
MCWalltime == <<900, 420>>
MCArgs == {[start |-> -1, window |-> 300], [start |-> 0, window |-> -1]}
\* in the past, shortly after the first date, past the right edge
MCHints == {0, 100, 1000}
MCDelays == {70}

(* Three kinds of providers and a clock slow answers push past every       *)
(* margin: 60, 240 and 540 seconds.  24:04 has to lose five minutes to     *)
(* become a time of day.                                                   *)
MCSlowKind == <<"g5k", "plain", "iotlab">>
MCSlowWalltime == <<1800, 1, 86640>>
MCSlowArgs == {[start |-> -1, window |-> 300]}
MCSlowDelays == {600}
=============================================================================
