-------------------------- MODULE MCTrainQueries --------------------------
(***************************************************************************)
(* Seven trains over four stations for the queries.  Sales run over the    *)
(* end of June; one train is sold from the end of July only, so that a     *)
(* change to it may take more than a month.  Two trains have twins that    *)
(* differ in name and sale alone, so that names decide.                    *)
(***************************************************************************)
EXTENDS QueryProperties

\* Leaves the second station after midnight.
Night == [train_id |-> 3, stations |-> <<1, 2, 3>>, start |-> 1380, travel |-> <<70, 100>>,
          stopover |-> <<0, 20, 0>>, price |-> <<4, 3>>,
          begin |-> Clock(6, 28, 0, 0), end |-> Clock(7, 2, 0, 0)]
\* As dear and as long between the first two stations as Night, and a slow way
\* to the last, two days after departure.
Slow == [train_id |-> 2, stations |-> <<1, 2, 3, 4>>, start |-> 600,
         travel |-> <<70, 1440, 800>>, stopover |-> <<0, 20, 700, 0>>, price |-> <<4, 1, 1>>,
         begin |-> Clock(6, 29, 0, 0), end |-> Clock(7, 1, 0, 0)]
\* Leaves station 2 at the minute at which Slow arrives.
Link == [train_id |-> 1, stations |-> <<2, 3, 4>>, start |-> 670, travel |-> <<120, 90>>,
         stopover |-> <<0, 5, 0>>, price |-> <<3, 4>>,
         begin |-> Clock(6, 30, 0, 0), end |-> Clock(7, 3, 0, 0)]
\* From the first to the third station, the way back on and the last stop.
Direct == [train_id |-> 4, stations |-> <<1, 3, 2, 4>>, start |-> 620, travel |-> <<170, 60, 30>>,
           stopover |-> <<0, 10, 5, 0>>, price |-> <<7, 1, 7>>,
           begin |-> Clock(6, 29, 0, 0), end |-> Clock(6, 30, 0, 0)]
\* Sold from the end of July.
Late == [train_id |-> 5, stations |-> <<1, 2, 3>>, start |-> 0, travel |-> <<70, 100>>,
         stopover |-> <<0, 1439, 0>>, price |-> <<1, 1>>,
         begin |-> Clock(7, 31, 0, 0), end |-> Clock(8, 2, 0, 0)]

NightTwin == [Night EXCEPT !.train_id = 7, !.begin = Clock(6, 27, 0, 0)]
LinkTwin == [Link EXCEPT !.train_id = 6, !.begin = Clock(6, 29, 0, 0)]

Timetable == {Night, Slow, Link, Direct, Late, NightTwin, LinkTwin}
FourStations == {1, 2, 3, 4}
=============================================================================
