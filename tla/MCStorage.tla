------------------------------- MODULE MCStorage -------------------------------
(***************************************************************************)
(* An instance of Storage for TLC: two tasks, say app_task and the AWS     *)
(* task, that store, erase and read under one key.                         *)
(***************************************************************************)
EXTENDS Storage

CONSTANTS app, aws, key, v, none

TwoTasks == {app, aws}
OneKey == {key}
OneValue == {v}
===============================================================================
