--------------------------- MODULE MCTrainSystem ---------------------------
(***************************************************************************)
(* Instances of TrainSystem for TLC.                                       *)
(***************************************************************************)
EXTENDS TrainRefinement

\* Three stations, one departure (day 1), two seats; the second station is
\* left on the day after the departure.
ThreeStops == [stations |-> <<"A", "B", "C">>, leave_day |-> <<0, 1, 1>>,
               tickets_num |-> 2, begin |-> 1, end |-> 1, has_released |-> FALSE]
\* Two stations, two departures, one seat.
TwoStops == [stations |-> <<"C", "A">>, leave_day |-> <<0, 0>>,
             tickets_num |-> 1, begin |-> 1, end |-> 2, has_released |-> FALSE]
\* The same stations with more seats and an empty period of sale.
NeverSold == [stations |-> <<"C", "A">>, leave_day |-> <<0, 0>>,
              tickets_num |-> 2, begin |-> 2, end |-> 1, has_released |-> FALSE]

\* Two stations, one departure, two seats.
Shuttle == [stations |-> <<"A", "B">>, leave_day |-> <<0, 0>>,
            tickets_num |-> 2, begin |-> 1, end |-> 1, has_released |-> FALSE]

OneTrain == {ThreeStops}
OneShuttle == {Shuttle}
Catalogue == {ThreeStops, TwoStops, NeverSold}
EndStations == {"A", "B"}
Stations == {"A", "B", "C"}
TwoDays == {1, 2}
=============================================================================
