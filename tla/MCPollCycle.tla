---------------------------- MODULE MCPollCycle ----------------------------
(***************************************************************************)
(* Small instances of PollCycle: a tag that rests, is carried off in steps *)
(* and is misplaced once by a bad relay, and an owner who stays at home.   *)
(***************************************************************************)
EXTENDS PollCycle

CONSTANTS scheduler, web, cli, server, shell, tag, bag

MCOneThread == {scheduler}
MCOneProcess == {server}
MCOneThreadOf == [p \in {scheduler} |-> server]

MCThreads == {scheduler, web}
MCThreadsOf == [p \in MCThreads |-> server]

MCTwoPrograms == {scheduler, cli}
MCTwoProcesses == {server, shell}
MCTwoProgramsOf == [p \in MCTwoPrograms |-> IF p = cli THEN shell ELSE server]

MCTimes == 0 .. MaxTime

Fix(t, pos, conf) == [t |-> t, pos |-> pos, acc |-> None, conf |-> conf]

(* A rest, a step, a misplaced fix, a small step after a rest, and a fix    *)
(* of low confidence: one report per time.                                 *)
MCTagReports ==
    [a \in {tag} |-> {Fix(0, 0, 3), Fix(1, 3, 3), Fix(2, 40, 3), Fix(3, 4, 2),
                      Fix(4, 5, 1)}]

(* Whether the last is an outlier depends on whether the second is there.  *)
MCFlaggedReports ==
    [a \in {tag} |-> {Fix(0, 0, 3), Fix(1, 3, 3), Fix(2, 12, 3)}]

MCTwoTags ==
    [a \in {tag, bag} |-> IF a = tag THEN {Fix(0, 0, 3), Fix(1, 3, 3)}
                                     ELSE {Fix(0, 3, None)}]

MCOwnerTrack == [t \in MCTimes |-> 0]

MCAway == {tag}

MCHome == {0, 5}

MCCfg == [distanceThreshold |-> 2, stillstandMovement |-> 0, stillstandTime |-> 2,
          alertOnBackfill |-> TRUE, awayDistance |-> 2, ownerMaxAge |-> 1,
          maxSpeed |-> 6, minConfidence |-> 2]

MCQuietCfg == [MCCfg EXCEPT !.alertOnBackfill = FALSE]

MCNotifyOn == {"distance_threshold", "left_behind", "autonomous_movement"}
=============================================================================
