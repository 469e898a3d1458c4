-------------------------- MODULE RuntimeActivities --------------------------
(***************************************************************************)
(* How one turn or one long task of the Agent is drawn on the Owner's map: *)
(* its stages, the hops of its route and the hop that is highlighted.      *)
(* Everything here is a function of one row the Agent answered with.       *)
(***************************************************************************)
EXTENDS Integers, Sequences, SequencesExt, FiniteSets

\* the words for a status that some branch tells apart; "" is a row without one
Statuses == {"running", "processing", "ok", "errored", "interrupted", ""}

\* an answered field that is not there
Absent == 99

\* a turn's row: completed is there only while the turn runs, because a turn that
\* ended has no open calls
TurnRows ==
    {row \in [kind : {"turn"}, status : Statuses, device : BOOLEAN, companion : BOOLEAN,
              recall : {"no", "attempted", "degraded"}, asked : 0..2, errors : 0..1,
              completed : {0, 1, 2, Absent}, spoke : BOOLEAN, wrote : BOOLEAN] :
        /\ row.status \notin {"running", "processing"} <=> row.completed = Absent
        /\ row.completed # Absent => row.completed <= row.asked
        /\ row.errors <= row.asked}

\* a long task's row: the Agent's own, or a provider's
TaskRows == [kind : {"task"}, status : Statuses, provider : {"agent", "mementos", ""}]

\* _activity_is_active
IsActive(status) == status \in {"running", "processing"}

\* _stage_status: a word it does not know is the word of something that ended
StageStatus(status) ==
    CASE status = "running" -> "running"
      [] status = "errored" -> "failed"
      [] status = ""        -> "pending"
      [] OTHER              -> "done"

Running(row) == StageStatus(row.status) = "running"

\* _tool_stage_status: only a live row tells asked from answered
ToolStageStatus(row) ==
    IF row.errors > 0 THEN "failed"
    ELSE IF row.completed # Absent /\ row.asked > row.completed THEN "running"
    ELSE IF row.asked > 0 THEN "done"
    ELSE IF Running(row) THEN "pending" ELSE "done"

\* _response_stage_status: the answer has begun, or not yet
ResponseStageStatus(row) ==
    IF Running(row) THEN IF row.spoke THEN "running" ELSE "pending"
    ELSE StageStatus(row.status)

\* _turn_stages: the journey of a turn in the order it is travelled
TurnStages(row) ==
    LET Stage(key, status) == [key |-> key, status |-> status]
    IN  <<Stage("input", "done"),
          Stage("memory_recall", CASE row.recall = "degraded" -> "degraded"
                                   [] row.recall = "attempted" -> "done"
                                   [] OTHER -> "pending"),
          Stage("agent_turn", StageStatus(row.status)),
          Stage("tools", ToolStageStatus(row)),
          Stage("response", ResponseStageStatus(row)),
          Stage("memory_write", IF row.wrote THEN "done" ELSE "pending")>>

\* _voice_stage_node: where on the map a stage is
VoiceStageNode(key) ==
    CASE key \in {"memory_recall", "memory_write"} -> "memory"
      [] key \in {"agent_turn", "response", "tools"} -> "agent"
      [] OTHER -> "channel"

Hop(node, stage, status) == [node |-> node, stage |-> stage, status |-> status]

\* the route of a turn: its body and its Companion, if it has them, then its stages
VoiceRoute(row) ==
    LET stages == TurnStages(row)
    IN  (IF row.device THEN <<Hop("device", "input", "done")>> ELSE <<>>)
        \o (IF row.companion THEN <<Hop("companion", "identity", "done")>> ELSE <<>>)
        \o [i \in DOMAIN stages |-> Hop(VoiceStageNode(stages[i].key), stages[i].key,
                                         stages[i].status)]

NoHop == 0

\* the last hop that runs; a turn that is active is highlighted somewhere
CurrentHop(row, route) ==
    LET last == SelectLastInSeq(route, LAMBDA hop : hop.status = "running")
    IN  IF last = 0 /\ IsActive(row.status) THEN Len(route) ELSE last

\* _voice_activity_summary: the stage that runs, or how the turn ended
Summary(row, route) ==
    LET last == SelectLastInSeq(route, LAMBDA hop : hop.status = "running")
    IN  CASE IsActive(row.status) -> IF last = 0 THEN "in progress" ELSE route[last].stage
          [] row.status = "interrupted" -> "interrupted"
          [] row.status = "errored" -> "failed"
          [] OTHER -> "completed"

\* _turn and _voice_activity
VoiceActivity(row) ==
    LET route == VoiceRoute(row)
    IN  [route |-> route, current |-> CurrentHop(row, route), summary |-> Summary(row, route)]

\* _long_task_job: a task without a status is one whose status is unknown, and
\* one that names no provider is Mementos'
LongTaskJob(row) ==
    [status |-> IF row.status = "" THEN "unknown" ELSE row.status,
     provider |-> IF row.provider = "" THEN "mementos" ELSE row.provider]

\* _job_activity: the Agent dispatches, a provider executes
JobActivity(row) ==
    LET job == LongTaskJob(row)
        active == IsActive(job.status)
        route == <<Hop("agent", "dispatch", IF active THEN "running" ELSE "done")>>
                 \o IF job.provider = "agent" THEN <<>>
                    ELSE <<Hop("provider", "execute",
                               IF active THEN "running" ELSE StageStatus(job.status))>>
    IN  [route |-> route, current |-> IF active THEN Len(route) ELSE NoHop,
         summary |-> "task"]

Drawn(row) == IF row.kind = "turn" THEN VoiceActivity(row) ELSE JobActivity(row)

\* What is highlighted is going on: an activity that ended has no highlight, one
\* that is active has one, and on a row the Host knows to be running it stands on
\* a hop that has begun and not ended, and the words beside it name the same stage.
HighlightIsOn(row, activity) ==
    /\ IsActive(row.status) <=> activity.current # NoHop
    /\ row.status = "running" => activity.route[activity.current].status = "running"
    /\ (row.kind = "turn" /\ row.status = "running") =>
          activity.summary = activity.route[activity.current].stage
    /\ (row.kind = "turn" /\ row.status = "running") =>
          CASE activity.route[activity.current].stage = "response" -> row.spoke
            [] activity.route[activity.current].stage = "tools" -> row.completed < row.asked
            [] OTHER -> activity.route[activity.current].stage = "agent_turn" /\ ~row.spoke
=============================================================================
