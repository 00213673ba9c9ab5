---------------------------- MODULE MCBatchWindow ----------------------------
(* A sigmoid in steps over the mean of the samples. *)
EXTENDS BatchWindow

MCOperations == [dynamic : BOOLEAN, size : {1, 3}, minWait : {1}, maxWait : {1, 5}]
                \cup [dynamic : BOOLEAN, size : {2}, minWait : {0}, maxWait : {0, 3}]
MCCurve == [s \in SampleWindows |->
    LET ones == {i \in DOMAIN s : s[i] > 0} IN
    IF ones = {} THEN 4 ELSE IF ones = DOMAIN s THEN 96 ELSE 50]
=============================================================================
