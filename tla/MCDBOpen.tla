------------------------------ MODULE MCDBOpen ------------------------------
EXTENDS DBOpen

(* Workloads: the calls and the faults of one kind of trouble each. *)
Quiet == [faults |-> {}, buffer |-> 1, putters |-> Writers, syncs |-> BOOLEAN, writes |-> 2, compacts |-> 0, reads |-> 0,
          crashes |-> 0, reuse |-> FALSE, repairs |-> FALSE]
One == CHOOSE c \in Writers : TRUE
Crashing == [Quiet EXCEPT !.crashes = 2]
Reusing == [Quiet EXCEPT !.crashes = 2, !.reuse = TRUE]
Failing == [Quiet EXCEPT !.crashes = 1, !.putters = {One},
                         !.faults = {"append", "sync", "table", "manifest", "newlog"}]
Reading == [Quiet EXCEPT !.writes = 3, !.reads = 1, !.putters = {One}, !.syncs = {FALSE}]
Manual == [Quiet EXCEPT !.compacts = 1, !.putters = {One}, !.faults = {"table", "sync"}]
Nested == [Manual EXCEPT !.writes = 3, !.syncs = {FALSE}, !.faults = {"table"}]
Repairing == [Quiet EXCEPT !.crashes = 1, !.repairs = TRUE]
Losing == [Quiet EXCEPT !.crashes = 1, !.writes = 3, !.buffer = 3]
Refusing == [Quiet EXCEPT !.crashes = 2, !.faults = {"manifest"}, !.putters = {One}, !.syncs = {TRUE}]
ThePlans == {Crashing, Reusing, Failing, Reading, Manual, Nested, Repairing, Losing, Refusing}
=============================================================================
