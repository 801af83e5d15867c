--------------------------- MODULE MCTeamExchange ---------------------------
(* Two devices that write to and watch the same teams. *)
EXTENDS TeamExchange

MCDevices == {"phone", "pad"}

\* The phone writes twice and may lose its connection or be restarted; the pad writes in
\* between.
MCMaxWrites == [d \in MCDevices |-> IF d = "phone" THEN 2 ELSE 1]
MCMaxDrops == [d \in MCDevices |-> IF d = "phone" THEN 1 ELSE 0]
MCMaxRefusals == MCMaxDrops
=============================================================================
