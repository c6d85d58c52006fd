--------------------------- MODULE MCExecutorHost ---------------------------
EXTENDS ExecutorRefinement

CONSTANTS m0, o1, o10  \* executors of mon0, osd1 and osd10

task(type, k, n) == [type |-> type, token |-> k, name |-> n,
                     initial |-> type = "MON", run |-> 1]

Tasks == [e \in Exec |-> CASE e = m0  -> task("MON", 0, "mon0")
                           [] e = o1  -> task("OSD", 1, "osd1")
                           [] e = o10 -> task("OSD", 10, "osd10")]

Prefix == [n \in Name |-> {n} \cup (IF n = "osd1" THEN {"osd10"} ELSE {})]
=============================================================================
