---------------------------- MODULE MCSchedules -----------------------------
(* 29 June 2026 is day 0, a Monday. One zone is Ho Chi Minh City's; the other  *)
(* is west of Greenwich and moves its clocks from 2 to 3 on day 30.            *)
EXTENDS Schedules

Far == 24 * 1000
East == [base |-> 7, shift |-> 0, at |-> Far]
West == [base |-> -5, shift |-> 1, at |-> 24 * 30 + 7]
MCZones == {East, West}
MCFirsts == {-59, -28, 2, 33, 64, 94}

(* Before, at and after evening deliveries on Monday 27 July, after a night    *)
(* delivery behind the change of the clocks, and after the first of August.    *)
MCInstants == {24 * 28 + 10, 24 * 28 + 13, 24 * 28 + 15, 24 * 30 + 9, 24 * 35 + 16}

Start(z, set, h, asked, commands, faults) ==
  [zone |-> z, freqs |-> set, hour |-> h, asked |-> asked, commands |-> commands, faults |-> faults]

(* Every frequency set up and changed in both zones, more due rows than a      *)
(* batch holds, two changes in a row, and faults with and without a change.    *)
MCStarts ==
  { Start(East, {"daily"}, 20, {"daily"}, 1, 1), Start(West, {"daily"}, 2, {"daily", "monthly"}, 1, 0),
    Start(East, {"daily"}, 20, {"daily"}, 2, 0), Start(West, {}, 20, {"weekly"}, 2, 0),
    Start(West, {"daily", "weekly"}, 20, {}, 0, 1),
    Start(East, {"weekly", "monthly"}, 2, Freqs, 1, 0),
    Start(East, Freqs, 20, {}, 0, 0) }

(* Santiago: on Sunday 6 September, day 69, the clocks go from midnight to     *)
(* one. A daily summary in the evening of Saturday and of Sunday.              *)
Santiago == [base |-> -4, shift |-> 1, at |-> 24 * 69 + 4]
SkipZones == {Santiago}
SkipInstants == {24 * 68 + 12, 24 * 69 + 1, 24 * 70 + 1}
SkipStarts == {Start(Santiago, {"daily"}, 20, {}, 0, 0)}
=============================================================================
