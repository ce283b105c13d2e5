---------------------------- MODULE MCAsyncNode ----------------------------
(* Constants of the run of AsyncNode.                                      *)
EXTENDS AsyncNode

\* What the loop cannot do without.
Least == {{"ready_switch", "overwrite", "accept_ready", "light_ready", "advance",
            "conf_change", "done"}}
=============================================================================
