---------------------------- MODULE MCSchedules -----------------------------
EXTENDS Schedules
CONSTANTS m1, m2, c1, c2, t1, t2
TwoReals == <<m1, m2>>
None == << >>
TwoClients == <<c1, c2>>
TwoTrains == <<t1, t2>>

Step(src, dst, client, magnet, want) ==
    [src |-> src, dst |-> dst, client |-> client, magnet |-> magnet, want |-> want,
     facing |-> client # NoClient, lock |-> magnet # NoMagnet,
     eager |-> magnet = NoMagnet, stub |-> dst = "S2"]

(* A loop: from the entry through points to one of two sidings, one of     *)
(* them a stub, and out through points to a line that leads back.          *)
Loop ==
    << Step("E", "S1", c1, m1, FALSE), Step("E", "S2", c2, m1, TRUE),
       Step("S1", "X", NoClient, m2, FALSE), Step("S2", "X", NoClient, m2, TRUE),
       Step("X", "E", NoClient, NoMagnet, FALSE) >>

ASSUME LoopIsWell == WellLocked /\ WellLaid /\ WellOrdered

InEntryAndSiding == [t \in {t1, t2} |-> IF t = t1 THEN "E" ELSE "S1"]
=============================================================================
