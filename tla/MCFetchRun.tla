------------------------------ MODULE MCFetchRun ------------------------------
(* Three rows of the queue that name two addresses, one of high priority. *)
EXTENDS FetchRun, TLC

CONSTANTS a1, a2

Row(number, address, priority, sourced) ==
  [number |-> number, address |-> address, priority |-> priority, sourced |-> sourced]
MCRows == { Row(1, a1, 95, FALSE), Row(2, a1, 50, TRUE), Row(3, a2, 50, TRUE) }
MCModes == { [scoped |-> FALSE, override |-> FALSE], [scoped |-> TRUE, override |-> TRUE] }
=============================================================================
