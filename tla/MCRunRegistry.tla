--------------------------- MODULE MCRunRegistry ----------------------------
(* RunRegistry with one pipeline run and two operator commands beside it.   *)
EXTENDS RunRegistry

CONSTANTS run, tool, prune

MCStages == <<"m3", "load", "cataloguer-bundle">>

RunCmd      == [name |-> "run", home |-> None, sidecar |-> TRUE]
TagCmd      == [name |-> "tag", home |-> None, sidecar |-> FALSE, dir |-> run, tag |-> "keep"]
UntagCmd    == [name |-> "untag", home |-> None, sidecar |-> FALSE, dir |-> run, tag |-> "keep"]
MarkCmd     == [name |-> "mark", home |-> None, sidecar |-> FALSE, dir |-> run, status |-> "completed"]
PinnedList  == [name |-> "list", home |-> run, sidecar |-> TRUE]
PruneCmd(on, s, n, t) ==
  [name |-> "prune", home |-> None, sidecar |-> on, statuses |-> s, keepLast |-> n, keepTagged |-> t]

MCCommands ==
  [p \in {run, tool, prune} |->
     CASE p = run   -> {RunCmd}
       [] p = tool  -> {TagCmd, MarkCmd, PinnedList}
       [] p = prune -> {PruneCmd(FALSE, {"completed"}, 0, TRUE), UntagCmd}]

AllProcs == {run, tool, prune}
=============================================================================
