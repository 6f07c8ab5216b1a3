----------------------------- MODULE MCCronRuns -----------------------------
EXTENDS CronRuns

\* Every minute, and every other one: they share some times and not others.
MCOccurs == [s \in Schedules |-> IF s = "each" THEN 1 .. MaxTime ELSE {o \in 1 .. MaxTime : o % 2 = 0}]

\* Edits with a kill, a refused call or a flush, and a clock ahead without edits.
MCSettings ==
    {[faults |-> {"crash", "redis", "flush"}, edits |-> TRUE],
     [faults |-> {"early"}, edits |-> FALSE]}
=============================================================================
