------------------------------ MODULE MCSchedules ------------------------------
(***************************************************************************)
(* Instances of Schedules for TLC.  The calendar begins with 2026:         *)
(* 31 January 2026 is a Saturday, 1 and 28 February are a Sunday and a     *)
(* Saturday.                                                               *)
(***************************************************************************)
EXTENDS Schedules, TLC

CONSTANTS t1, t2, m1, m2

TwoTasks == {t1, t2}
TwoMailers == {m1, m2}

Payload(start, recurrence, interval, rule, until) ==
  [start |-> start, recurrence |-> recurrence, interval |-> interval, rule |-> rule,
   anchor |-> 2, until |-> until]

SomePayloads ==
  {Payload(0, "monthly", 1, "exact", NoDate), Payload(30, "monthly", 1, "exact", NoDate),
   Payload(9, "weekly", 2, "exact", 40), Payload(33, "monthly", 1, "first_monday_of_month", NoDate),
   Payload(33, "quarterly", 1, "first_friday_of_month", NoDate),
   Payload(33, "yearly", 1, "first_weekday_of_month", 60), Payload(31, "once", 1, "exact", NoDate)}

SomeChanges == {{"start"}, {"until"}, {"recurrence"}, {"rule", "recurrence"}}
SomeDays == {24, 45}

Symmetry == Permutations(Tasks) \cup Permutations(Mailers)
=============================================================================
