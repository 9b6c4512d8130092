--------------------------- MODULE MCHelperServer ---------------------------
(* Instances of HelperServer: the machine's largest index is 2, a child exists for 0 and 1, a
   band ends at 0; targets inside, at the edge of and outside the searched range, and a
   search that is asked to go further than children exist. *)
EXTENDS HelperServer, TLC

CONSTANTS r1, r2

MCBandEnds == <<0>>
MCInputs ==
  r1 :> { [kind |-> "stream", max |-> 1, targets |-> << <<1, 1>>, <<0, 2>> >>],
          [kind |-> "single", max |-> 1, targets |-> << <<1, 3>> >>],
          [kind |-> "single", max |-> 2, targets |-> << <<2, 1>> >>],
          [kind |-> "single", max |-> 0, targets |-> << <<0, 1>> >>] } @@
  r2 :> { [kind |-> "batch",  max |-> 0, targets |-> << <<0, 1>> >>] }
=============================================================================
