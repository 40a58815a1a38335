--------------------------- MODULE MCTicketSystem ---------------------------
(***************************************************************************)
(* An instance of TicketSystem for TLC: one train between two stations.    *)
(***************************************************************************)
EXTENDS TicketSystem, TLC

OneShuttle == {[stations |-> <<"A", "B">>, leave_day |-> <<0, 0>>,
                tickets_num |-> 1, begin |-> 1, end |-> 1, has_released |-> FALSE]}
EndStations == {"A", "B"}
=============================================================================
