------------------------ MODULE MCSubscriptionSchedule ------------------------
(* The instance of SubscriptionSchedule for TLC. One tick is the least      *)
(* interval, so an interval is off, the least or twice that.                *)
EXTENDS SubscriptionSchedule

CONSTANTS a, b
MCSubs == {a, b}
=============================================================================
