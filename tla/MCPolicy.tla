------------------------------ MODULE MCPolicy ------------------------------
(* WorkspacePolicy::engineering_default, for the .cfg files.  Its retry    *)
(* limit, concurrency limit and lease duration are given there.            *)

EngineeringStates ==
    {"BACKLOG", "READY", "RUNNING", "BLOCKED", "REVIEW", "DONE", "FAILED", "CANCELLED"}

EngineeringTransitions ==
    {<<"BACKLOG", "READY">>, <<"BACKLOG", "CANCELLED">>,
     <<"READY", "RUNNING">>, <<"READY", "CANCELLED">>,
     <<"RUNNING", "BLOCKED">>, <<"RUNNING", "READY">>, <<"RUNNING", "REVIEW">>,
     <<"RUNNING", "DONE">>, <<"RUNNING", "FAILED">>, <<"RUNNING", "CANCELLED">>,
     <<"BLOCKED", "READY">>, <<"BLOCKED", "CANCELLED">>,
     <<"REVIEW", "DONE">>, <<"REVIEW", "READY">>, <<"REVIEW", "CANCELLED">>,
     <<"FAILED", "READY">>, <<"FAILED", "RUNNING">>, <<"FAILED", "CANCELLED">>}
=============================================================================
