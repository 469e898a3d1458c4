------------------------------- MODULE ToolJobs -------------------------------
(***************************************************************************)
(* The workstation tools: the jobs that build and flash firmware, serial   *)
(* monitors and probes, and the streams that follow a job's log.           *)
(*                                                                         *)
(* All of it is one asyncio process.  A step runs from one await that      *)
(* suspends to the next: a process is being made, its output or its end is *)
(* waited for, a queue is full, a serial port is being opened.  An         *)
(* asyncio.Lock is held only where nothing suspends.  "mobile" is the      *)
(* service for phones: one job at a time, of one command, and no ports.    *)
(* Every write of a record or of a log line may fail, as on a full disk.   *)
(***************************************************************************)
EXTENDS Integers, FiniteSets

CONSTANTS
    Jobs,       \* job ids
    Boards,     \* board profiles
    Ports,      \* serial ports
    Sessions,   \* monitors and probes, used again when they have ended
    Streams,    \* followers of a job's log, used again
    NoBoard,    \* no board, and
    NoPort,     \* no port, named
    Free,       \* a port without a reservation
    NoJob,      \* a stream that follows nothing
    Services,   \* the services a run looks at: esp32, mobile
    QueueSize   \* lines a follower may be behind (1000)

ASSUME BoundsAssumption == QueueSize \in Nat \ {0} /\ Services \subseteq {"esp32", "mobile"}

ASSUME NamesAssumption ==
    /\ NoBoard \notin Boards /\ NoPort \notin Ports /\ Free \notin Sessions /\ NoJob \notin Jobs

VARIABLES
    service,    \* which of the two services this is
    job,        \* _jobs: the records and their run tasks
    use,        \* _serial_sessions: who has reserved a port
    session,    \* the calls of serial_stream and probe_device
    stream      \* the calls of stream_job and their queues

vars == <<service, job, use, session, stream>>

Statuses == {"none", "queued", "running", "succeeded", "failed", "cancelled"}

\* at: where _run_job is, "lost" where a write that failed ended create_job or
\* the task; left: steps not begun; tell: streams to be told the end
JobRows == [status : Statuses, board : Boards \cup {NoBoard}, port : Ports \cup {NoPort}, left : 0..2,
            at : {"none", "begin", "spawn", "reads", "tell", "lost"},
            cancel : BOOLEAN, tell : SUBSET Streams]

\* closing: close_requested; old: reserved for longer than 15 seconds
SessionRows == [at : {"idle", "waits", "opening", "probing", "reading", "ending"},
                board : Boards \cup {NoBoard}, port : Ports \cup {NoPort},
                after : Sessions \cup {Free},
                closing : BOOLEAN, old : BOOLEAN]

\* gone: the browser has left a queue that a task still has to tell;
\* before: the streams whose queues come before this one in subscribers
StreamRows == [at : {"idle", "history", "live", "gone"}, job : Jobs \cup {NoJob},
               lines : 0..QueueSize, told : BOOLEAN, before : SUBSET Streams]

NoRecord == [status |-> "none", board |-> NoBoard, port |-> NoPort, left |-> 0,
             at |-> "none", cancel |-> FALSE, tell |-> {}]

IdleSession == [at |-> "idle", board |-> NoBoard, port |-> NoPort, after |-> Free,
                closing |-> FALSE, old |-> FALSE]

IdleStream == [at |-> "idle", job |-> NoJob, lines |-> 0, told |-> FALSE, before |-> {}]

Init ==
    /\ service \in Services
    /\ job = [j \in Jobs |-> NoRecord]
    /\ use = [p \in Ports |-> Free]
    /\ session = [s \in Sessions |-> IdleSession]
    /\ stream = [q \in Streams |-> IdleStream]

Active(j) == job[j].status \in {"queued", "running"}

-----------------------------------------------------------------------------
(* Jobs.                                                                    *)

\* _assert_jobs_available: the board and the port are not a job's
JobsAvailable(b, p) ==
    \A k \in Jobs : Active(k) =>
        /\ service = "esp32"
        /\ job[k].board # b
        /\ p # NoPort => job[k].port # p

\* (faulty variant: the reservations of monitors are not asked)
NoConflictOfJobs(b, p) == JobsAvailable(b, p)

\* _assert_no_conflict: nor is the port reserved
NoConflict(b, p) ==
    /\ JobsAvailable(b, p)
    /\ p # NoPort => use[p] = Free

\* what _steps makes of an action: nothing to run, one command, or two in a row
StepCounts == 0..2

\* create_job: check, record and persist under the lock, then create the task,
\* unless persisting raised: the record is there without one
CreateJob(j, b, p, steps) ==
    /\ job[j].status = "none"
    /\ service = "mobile" => p = NoPort /\ steps = 1
    /\ NoConflict(b, p)
    /\ \E at \in {"begin", "lost"} :
          job' = [job EXCEPT ![j] = [NoRecord EXCEPT !.status = "queued", !.board = b,
                                                     !.port = p, !.left = steps,
                                                     !.at = at]]
    /\ UNCHANGED <<service, use, session, stream>>

\* the queues of the streams on j, which all get a line, or the lines of one
\* step, unless they are full
Appended(j) ==
    [q \in Streams |->
       IF stream[q].at = "live" /\ stream[q].job = j /\ stream[q].lines < QueueSize
       THEN [stream[q] EXCEPT !.lines = @ + 1] ELSE stream[q]]

Followers(j) == {q \in Streams : stream[q].at = "live" /\ stream[q].job = j}

\* the end of _run_job up to the streams it has to tell: status, line, persist.
\* A line that cannot be written is not sent either; a record that cannot be
\* written ends the task before it tells anybody.  Of a record that has ended
\* only the status is read again.
Ends(j, status) ==
    /\ \/ job' = [job EXCEPT ![j] = [NoRecord EXCEPT !.status = status, !.at = "tell",
                                                     !.tell = Followers(j)]]
       \/ job' = [job EXCEPT ![j] = [NoRecord EXCEPT !.status = status, !.at = "lost"]]
    /\ stream' \in {Appended(j), stream}

\* (faulty variant: the request to cancel is read only at the end)
GoOnToTheEnd(j) ==
    \/ /\ job[j].left > 0
       /\ job' = [job EXCEPT ![j].status = "running", ![j].at = "spawn", ![j].left = @ - 1]
       /\ stream' = Appended(j)
    \/ /\ job[j].left = 0
       /\ Ends(j, IF job[j].cancel THEN "cancelled" ELSE "succeeded")

\* the loop over the steps: cancelled, next step, or done.  The line of a step
\* goes out before its process is made.
GoOn(j) ==
    \/ job[j].cancel /\ Ends(j, "cancelled")
    \/ /\ ~job[j].cancel /\ job[j].left > 0
       /\ job' = [job EXCEPT ![j].status = "running", ![j].at = "spawn", ![j].left = @ - 1]
       /\ stream' = Appended(j)
    \/ ~job[j].cancel /\ job[j].left = 0 /\ Ends(j, "succeeded")

\* the task begins outside its try: a record or a first line that cannot be
\* written leaves the job running without it
BeginFails(j) ==
    /\ job' = [job EXCEPT ![j].status = "running", ![j].at = "lost"]
    /\ UNCHANGED stream

\* the task begins; a phone's job makes its process without asking for cancel;
\* a write of the first step, or a diagnosis, which has no process, may fail
BeginJob(j) ==
    /\ job[j].at = "begin"
    /\ \/ BeginFails(j)
       \/ /\ service = "mobile"
          /\ job' = [job EXCEPT ![j].status = "running", ![j].at = "spawn", ![j].left = 0]
          /\ stream' = Appended(j)
       \/ /\ service = "esp32"
          /\ GoOn(j) \/ ((~job[j].cancel \/ job[j].left = 0) /\ Ends(j, "failed"))
    /\ UNCHANGED <<service, use, session>>

\* create_subprocess_exec answers: record.process is set, or the job failed
Spawned(j) ==
    /\ job[j].at = "spawn"
    /\ \/ job' = [job EXCEPT ![j].at = "reads"] /\ UNCHANGED stream
       \/ Ends(j, "failed")
    /\ UNCHANGED <<service, use, session>>

\* a line of the process; when it cannot be written the job has failed, though
\* its process goes on
Output(j) ==
    /\ job[j].at = "reads"
    /\ \/ stream' = Appended(j) /\ UNCHANGED job
       \/ Ends(j, "failed")
    /\ UNCHANGED <<service, use, session>>

\* the process is gone: a code other than 0 fails an ESP32 job, cancelled or
\* not; a phone's job asks for cancel first
ProcessEnds(j) ==
    /\ job[j].at = "reads"
    /\ \/ service = "esp32" /\ (GoOn(j) \/ Ends(j, "failed"))
       \/ /\ service = "mobile"
          /\ \E status \in {"succeeded", "failed"} :
                Ends(j, IF job[j].cancel THEN "cancelled" ELSE status)
    /\ UNCHANGED <<service, use, session>>

\* the None that ends a stream, in the order of subscribers; put waits for room,
\* and so do the streams behind a full queue
Tell(j, q) ==
    /\ job[j].at = "tell" /\ q \in job[j].tell
    /\ stream[q].before \cap job[j].tell = {}
    /\ stream[q].lines < QueueSize
    /\ job' = [job EXCEPT ![j].tell = @ \ {q}]
    /\ stream' = [stream EXCEPT ![q] =
         IF @.at = "gone" THEN IdleStream ELSE [@ EXCEPT !.told = TRUE]]
    /\ UNCHANGED <<service, use, session>>

RunEnds(j) ==
    /\ job[j].at = "tell" /\ job[j].tell = {}
    /\ job' = [job EXCEPT ![j].at = "none"]
    /\ UNCHANGED <<service, use, session, stream>>

\* cancel_job: terminates a process that is there; one being made is missed.
\* For a job that has ended it only sets the flag, which nothing reads.
CancelJob(j) ==
    /\ Active(j) /\ ~job[j].cancel
    /\ job' = [job EXCEPT ![j].cancel = TRUE]
    /\ UNCHANGED <<service, use, session, stream>>

-----------------------------------------------------------------------------
(* Monitors and probes.                                                     *)

\* serial_port is None
Unopened(s) == session[s].at \in {"opening", "probing"}

\* _drop_stale_serial_reservations
Fresh(p) ==
    IF use[p] # Free /\ Unopened(use[p]) /\ (session[use[p]].closing \/ session[use[p]].old)
    THEN Free ELSE use[p]

\* GET ports
ListPorts ==
    /\ use' = [p \in Ports |-> Fresh(p)]
    /\ UNCHANGED <<service, job, session, stream>>

\* a session that has just reserved port p
Holding(p, place) == [IdleSession EXCEPT !.at = place, !.port = p]

\* one turn of the loop of _reserve_serial_monitor, under the lock: refused,
\* reserved, also from a holder that has not opened the port yet, or a holder
\* that has is asked to leave
Reserve(s, b, p, takeover) ==
    LET holder == Fresh(p)
        fresh == [r \in Ports |-> Fresh(r)]
        mayTake == holder # Free => takeover /\ session[holder].at # "probing"
        unopened == holder # Free => Unopened(holder)
        asked == [t \in Sessions |->
                    IF t = holder THEN [session[t] EXCEPT !.closing = TRUE] ELSE session[t]]
    IN  \/ /\ ~JobsAvailable(b, p) \/ ~mayTake
           /\ use' = fresh
           /\ session' = [session EXCEPT ![s] = IdleSession]
        \/ /\ JobsAvailable(b, p) /\ mayTake
           /\ unopened
           /\ use' = [fresh EXCEPT ![p] = s]
           /\ session' = [asked EXCEPT ![s] = Holding(p, "opening")]
        \/ /\ JobsAvailable(b, p) /\ mayTake
           /\ ~unopened
           /\ use' = fresh
           /\ session' = [asked EXCEPT ![s] = [IdleSession EXCEPT
                !.at = "waits", !.board = b, !.port = p, !.after = holder]]

OpenMonitor(s, b, p, takeover) ==
    /\ service = "esp32"
    /\ session[s].at = "idle"
    /\ Reserve(s, b, p, takeover)
    /\ UNCHANGED <<service, job, stream>>

\* _wait_for_port_release has seen the holder leave
TakeOver(s) ==
    LET w == session[s] IN
    /\ w.at = "waits" /\ use[w.port] # w.after
    /\ Reserve(s, w.board, w.port, TRUE)
    /\ UNCHANGED <<service, job, stream>>

\* it did not within three seconds
TakeOverFails(s) ==
    /\ session[s].at = "waits"
    /\ session' = [session EXCEPT ![s] = IdleSession]
    /\ UNCHANGED <<service, job, use, stream>>

\* (faulty variant: whoever has the port loses it)
LeftAny(s) ==
    /\ use' = [use EXCEPT ![session[s].port] = Free]
    /\ session' = [session EXCEPT ![s] = IdleSession]

\* the finally of both: the reservation goes if it is still this session's
Left(s) ==
    /\ use' = [use EXCEPT ![session[s].port] = IF @ = s THEN Free ELSE @]
    /\ session' = [session EXCEPT ![s] = IdleSession]

\* the port is open, also when the reservation is somebody else's by now, or
\* could not be opened
Opened(s) ==
    /\ session[s].at = "opening"
    /\ \/ session' = [session EXCEPT ![s].at = "reading"] /\ UNCHANGED use
       \/ Left(s)
    /\ UNCHANGED <<service, job, stream>>

\* it reads until it is asked to close, says so, and leaves; or until its
\* browser is gone
StopsReading(s) ==
    /\ session[s].at = "reading" /\ session[s].closing
    /\ session' = [session EXCEPT ![s].at = "ending"]
    /\ UNCHANGED <<service, job, use, stream>>

Leave(s) ==
    /\ session[s].at \in {"reading", "ending"}
    /\ Left(s)
    /\ UNCHANGED <<service, job, stream>>

OpenProbe(s, b, p) ==
    /\ service = "esp32"
    /\ session[s].at = "idle"
    /\ NoConflict(b, p)
    /\ use' = [use EXCEPT ![p] = s]
    /\ session' = [session EXCEPT ![s] = Holding(p, "probing")]
    /\ UNCHANGED <<service, job, stream>>

\* three calls of esptool, each of up to 20 seconds
ProbeEnds(s) ==
    /\ session[s].at = "probing"
    /\ Left(s)
    /\ UNCHANGED <<service, job, stream>>

\* 15 seconds since it reserved its port
Ages(s) ==
    /\ Unopened(s) /\ ~session[s].old
    /\ session' = [session EXCEPT ![s].old = TRUE]
    /\ UNCHANGED <<service, job, use, stream>>

-----------------------------------------------------------------------------
(* Streams.                                                                 *)

\* stream_job reads what the log file holds and yields it line by line
OpenStream(q, j) ==
    /\ stream[q].at = "idle"
    /\ job[j].status # "none"
    /\ stream' = [stream EXCEPT ![q] = [IdleStream EXCEPT !.at = "history", !.job = j]]
    /\ UNCHANGED <<service, job, use, session>>

\* record.subscribers.append
AppendedQueue(q) == [stream[q] EXCEPT !.at = "live", !.before = Followers(stream[q].job)]

\* (faulty variant: the status from before the history counts)
SubscribeAlways(q) ==
    /\ stream[q].at = "history"
    /\ stream' = [stream EXCEPT ![q] = AppendedQueue(q)]
    /\ UNCHANGED <<service, job, use, session>>

\* then the status decides, and nothing suspends until the queue is added
Subscribe(q) ==
    /\ stream[q].at = "history"
    /\ stream' = [stream EXCEPT ![q] =
         IF Active(stream[q].job) THEN AppendedQueue(q) ELSE IdleStream]
    /\ UNCHANGED <<service, job, use, session>>

\* the queue leaves subscribers, and is before no other one; a task that is
\* telling the end works off the list as it was and meets the queue all the same
Removed(q) ==
    IF \E j \in Jobs : q \in job[j].tell
    THEN [stream EXCEPT ![q].at = "gone"]
    ELSE [r \in Streams |-> IF r = q THEN IdleStream
                            ELSE [stream[r] EXCEPT !.before = @ \ {q}]]

ReadLine(q) ==
    /\ stream[q].at = "live"
    /\ \/ stream[q].lines > 0 /\ stream' = [stream EXCEPT ![q].lines = @ - 1]
       \/ stream[q].lines = 0 /\ stream[q].told /\ stream' = Removed(q)
    /\ UNCHANGED <<service, job, use, session>>

\* the browser goes: a full queue nobody reads keeps a telling task there
Unsubscribe(q) ==
    /\ stream[q].at \in {"history", "live"}
    /\ stream' = Removed(q)
    /\ UNCHANGED <<service, job, use, session>>

-----------------------------------------------------------------------------

\* (faulty variant: a job is loaded as it was)
ReloadedAsIs(j, kept) == [job[j] EXCEPT !.at = "none", !.tell = {}, !.port = NoPort]

\* _load_history: a job that had not ended on disk has now; its port is not
\* kept.  After a write that failed an earlier record is there, or none.
Reloaded(j, kept) ==
    LET written == job[j].at # "lost"
        last == IF service = "esp32" THEN "cancelled" ELSE "failed"
    IN  [NoRecord EXCEPT !.status = IF ~written /\ j \notin kept THEN "none"
                                    ELSE IF written /\ ~Active(j) THEN job[j].status
                                    ELSE last]

Restart ==
    /\ \E kept \in SUBSET {j \in Jobs : job[j].at = "lost"} :
          job' = [j \in Jobs |-> Reloaded(j, kept)]
    /\ use' = [p \in Ports |-> Free]
    /\ session' = [s \in Sessions |-> IdleSession]
    /\ stream' = [q \in Streams |-> IdleStream]
    /\ UNCHANGED service

Run(j) ==
    \/ BeginJob(j) \/ Spawned(j) \/ Output(j) \/ ProcessEnds(j)
    \/ RunEnds(j) \/ \E q \in Streams : Tell(j, q)

Serial(s) ==
    \/ \E b \in Boards, p \in Ports :
          OpenProbe(s, b, p) \/ \E takeover \in BOOLEAN : OpenMonitor(s, b, p, takeover)
    \/ TakeOver(s) \/ TakeOverFails(s) \/ Opened(s) \/ StopsReading(s)
    \/ ProbeEnds(s) \/ Leave(s) \/ Ages(s)

Follow(q) ==
    \/ \E j \in Jobs : OpenStream(q, j)
    \/ Subscribe(q) \/ ReadLine(q) \/ Unsubscribe(q)

Next ==
    \/ \E j \in Jobs, b \in Boards, p \in Ports \cup {NoPort}, steps \in StepCounts :
          CreateJob(j, b, p, steps)
    \/ \E j \in Jobs : Run(j) \/ CancelJob(j)
    \/ \E s \in Sessions : Serial(s)
    \/ \E q \in Streams : Follow(q)
    \/ ListPorts \/ Restart

Spec == Init /\ [][Next]_vars

-----------------------------------------------------------------------------
(* Properties.                                                              *)

\* Records, reservations, sessions and queues keep their shape, and a session that
\* waits for a port has one.
TypeOK ==
    /\ service \in Services
    /\ job \in [Jobs -> JobRows]
    /\ use \in [Ports -> Sessions \cup {Free}]
    /\ session \in [Sessions -> SessionRows]
    /\ \A s \in Sessions : session[s].at = "waits" => session[s].port \in Ports
    /\ stream \in [Streams -> StreamRows]

\* Two jobs that are queued or running share neither board nor port, no monitor
\* or probe has reserved the port of one, and a phone's job is alone, whatever
\* takeovers, stale reservations and restarts do.  About reservations only: that
\* of a probe is dropped after 15 seconds although the probe goes on.
WorkIsExclusive ==
    \A j \in Jobs : Active(j) =>
        /\ job[j].port # NoPort => use[job[j].port] = Free
        /\ \A k \in Jobs \ {j} : Active(k) =>
             /\ service = "esp32"
             /\ job[j].board # job[k].board
             /\ job[j].port # NoPort => job[j].port # job[k].port

\* A job that is queued or running has a task that will end it, unless a write
\* that failed took the task away; a restart leaves no job, of either kind, that
\* keeps its board busy.
ActiveHasRunner ==
    \A j \in Jobs : Active(j) => job[j].at \in {"begin", "spawn", "reads", "lost"}

\* A monitor or probe loses its reservation because it leaves, was asked to, has
\* held it too long without opening the port, or the process restarts; never
\* because a session that held the port before it ends.
SessionKeepsItsPort ==
    [][\A p \in Ports, s \in Sessions : use[p] = s /\ use'[p] # s =>
         \/ session[s].closing \/ session'[s].closing
         \/ session[s].old /\ Unopened(s)
         \/ session'[s].at = "idle"]_vars

\* After a request to cancel an ESP32 job begins no further step; a process that
\* is being made when the request comes is made.  (A phone's job has one command
\* and does not ask before it.)
CancelStopsSteps ==
    [][\A j \in Jobs : job[j].cancel /\ service = "esp32" /\ job[j].at # "spawn"
         => job'[j].at # "spawn"]_vars

\* Whoever follows a job that has ended is in the list its task works off, or has
\* been told, unless the last record could not be written: no stream joins
\* between the end and the list.  That the list is worked off is not said: a full
\* queue that its browser has left holds up those behind it.
NoStreamIsForgotten ==
    \A q \in Streams : stream[q].at = "live" =>
        \/ Active(stream[q].job)
        \/ q \in job[stream[q].job].tell
        \/ stream[q].told
        \/ job[stream[q].job].at = "lost"
=============================================================================
