--------------------------- MODULE MCExampleHubs ---------------------------
(* A small instance of ExampleHubs.  In two of the examples the rope of the *)
(* second connection drops it and joins again, as in 06_reconnect.rs.       *)
EXTENDS ExampleHubs, TLC

CONSTANTS r1, r2, r3

Cast == "smart_home" :> <<r1, r2, r3>> @@ "two_factor" :> <<r1, r2, r2>>
            @@ "commands" :> <<r1, r2, r2>>

=============================================================================
