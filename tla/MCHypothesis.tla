---------------------------- MODULE MCHypothesis ----------------------------
(***************************************************************************)
(* Instances of Hypothesis: steps over three members and one id that is no *)
(* member, some of them invalid.                                           *)
(***************************************************************************)
EXTENDS Hypothesis

Grouping ==
  {<<<<"n1">>, <<"n2", "n3">>>>, <<<<"n1">>, <<"n2">>, <<"n3">>>>,
   <<<<"n1", "n2">>, <<"n9">>>>, <<<<"n1">>>>, <<>>}

PartitionSteps(groupings) ==
  [at : {0, 1}, action : {"partition", "heal_partition"}, groups : groupings,
   target : {"all"}, index : {1}, key : {<<"k">>}, value : {<<"v">>}]

OtherSteps ==
  [at : {0}, action : {"start_cluster", "start_metrics_collection",
                        "read_all", "crash"}, groups : {<<>>},
   target : {"all"}, index : {1}, key : {<<"k">>}, value : {<<"v">>}]

WriteSteps ==
  [at : {0}, action : {"write"}, groups : {<<>>, <<<<"n3">>, <<"n1">>>>},
   target : {"all", "group", "n9"}, index : {2, 3}, key : {<<"k">>}, value : {<<"v">>}]

(* A value of no word and one of two.                                      *)
WordySteps ==
  [at : {0}, action : {"write"}, groups : {<<>>}, target : {"n2"}, index : {1},
   key : {<<"k">>}, value : {<<>>, <<"v", "w">>}]

AllSteps == PartitionSteps(Grouping) \cup OtherSteps \cup WriteSteps \cup WordySteps

Starts == {s \in OtherSteps : s.action = "start_cluster"}
=============================================================================
