--------------------------- MODULE ToolJobs_proofs ---------------------------
(***************************************************************************)
(* Proofs about ToolJobs, for any jobs, boards, ports, sessions, streams   *)
(* and any size of a stream's queue.                                       *)
(***************************************************************************)
EXTENDS ToolJobs, TLAPS

Busy(x) == x.status \in {"queued", "running"}

\* A record has a task exactly while it is queued or running, unless a write that
\* failed took it away, and streams to tell only once it is neither.
RecordOK(x) ==
    /\ Busy(x) => x.at \in {"begin", "spawn", "reads", "lost"}
    /\ x.at \in {"begin", "spawn", "reads"} => Busy(x)
    /\ x.tell # {} => x.at = "tell"

\* What holds of the stream q, which is in state x while the records are rows: it
\* follows a job that was created; it was told the end of a job that has ended; a
\* task that is to tell it finds it; and it is not forgotten, unless with its job.
FollowerOK(x, q, rows) ==
    /\ x.at # "idle" => x.job \in Jobs /\ rows[x.job].status # "none"
    /\ x.told => x.at # "idle" /\ ~Busy(rows[x.job])
    /\ \A j \in Jobs : q \in rows[j].tell =>
          x.at \in {"live", "gone"} /\ x.job = j /\ ~x.told
    /\ x.at = "live" => \/ Busy(rows[x.job]) \/ q \in rows[x.job].tell \/ x.told
                        \/ rows[x.job].at = "lost"

RecordsOK == \A j \in Jobs : RecordOK(job[j])
FollowersOK == \A q \in Streams : FollowerOK(stream[q], q, job)

Inv == TypeOK /\ RecordsOK /\ FollowersOK /\ WorkIsExclusive

-----------------------------------------------------------------------------

\* The initial rows have their types.
LEMMA RowTypes ==
    /\ NoRecord \in JobRows /\ IdleSession \in SessionRows /\ IdleStream \in StreamRows
<1>1. FALSE \in BOOLEAN
  OBVIOUS
<1>2. NoRecord \in JobRows
  BY <1>1 DEF NoRecord, JobRows, Statuses
<1>3. IdleSession \in SessionRows
  BY <1>1 DEF IdleSession, SessionRows
<1>4. IdleStream \in StreamRows
  BY <1>1, BoundsAssumption DEF BoundsAssumption, IdleStream, StreamRows
<1> QED
  BY <1>2, <1>3, <1>4

\* The initial state satisfies the invariant.
LEMMA InitInv == Init => Inv
<1> SUFFICES ASSUME Init PROVE Inv
  OBVIOUS
<1>1. TypeOK
  BY RowTypes DEF Init, TypeOK, IdleSession
<1>2. RecordsOK
  BY DEF Init, RecordsOK, RecordOK, Busy, NoRecord
<1>3. FollowersOK
  BY DEF Init, FollowersOK, FollowerOK, Busy, NoRecord, IdleStream
<1>4. WorkIsExclusive
  BY DEF Init, WorkIsExclusive, Active, NoRecord
<1> QED
  BY <1>1, <1>2, <1>3, <1>4 DEF Inv

\* Work stays exclusive while nobody starts any: records at most end, reservations
\* at most go.
LEMMA WorkShrinks ==
    ASSUME Inv, service' = service,
           \A j \in Jobs : Busy(job'[j]) =>
              /\ Busy(job[j])
              /\ job'[j].board = job[j].board /\ job'[j].port = job[j].port,
           \A p \in Ports : use'[p] \in {use[p], Free}
    PROVE  WorkIsExclusive'
<1> SUFFICES ASSUME NEW j \in Jobs, Busy(job'[j])
             PROVE  /\ job'[j].port # NoPort => use'[job'[j].port] = Free
                    /\ \A k \in Jobs \ {j} : Busy(job'[k]) =>
                         /\ service' = "esp32"
                         /\ job'[j].board # job'[k].board
                         /\ job'[j].port # NoPort => job'[j].port # job'[k].port
  BY DEF WorkIsExclusive, Active, Busy
<1>1. job[j] \in JobRows
  BY DEF Inv, TypeOK
<1>2. job[j].port # NoPort => job[j].port \in Ports
  BY <1>1 DEF JobRows
<1>3. job'[j].port # NoPort => use'[job'[j].port] = Free
  BY <1>2 DEF Inv, WorkIsExclusive, Active, Busy
<1>4. ASSUME NEW k \in Jobs \ {j}, Busy(job'[k])
      PROVE  /\ service' = "esp32"
             /\ job'[j].board # job'[k].board
             /\ job'[j].port # NoPort => job'[j].port # job'[k].port
  BY <1>4 DEF Inv, WorkIsExclusive, Active, Busy
<1> QED
  BY <1>3, <1>4

-----------------------------------------------------------------------------
(* Jobs.                                                                    *)

\* the streams differ in the lines of those that follow something
SameFollowers ==
    /\ stream' \in [Streams -> StreamRows]
    /\ \A q \in Streams :
          /\ stream'[q].at = stream[q].at /\ stream'[q].job = stream[q].job
          /\ stream'[q].told = stream[q].told
          /\ stream[q].at = "idle" => stream'[q] = stream[q]

\* A line is appended to the queues that have room.
LEMMA AppendedLemma ==
    ASSUME Inv, NEW j \in Jobs, stream' = Appended(j) \/ UNCHANGED stream
    PROVE  SameFollowers
<1>0. stream \in [Streams -> StreamRows]
  BY DEF Inv, TypeOK
<1>1. CASE stream' = Appended(j)
  <2>1. ASSUME NEW q \in Streams
        PROVE  /\ stream'[q] \in StreamRows
               /\ stream'[q].at = stream[q].at /\ stream'[q].job = stream[q].job
               /\ stream'[q].told = stream[q].told
               /\ stream[q].at = "idle" => stream'[q] = stream[q]
    <3>0. stream[q] \in StreamRows
      BY <1>0
    <3>1. CASE stream'[q] = stream[q]
      BY <3>0, <3>1
    <3>2. CASE /\ stream'[q] = [stream[q] EXCEPT !.lines = @ + 1]
               /\ stream[q].at = "live" /\ stream[q].lines < QueueSize
      <4>1. stream[q].lines + 1 \in 0..QueueSize
        BY <3>0, <3>2, BoundsAssumption DEF BoundsAssumption, StreamRows
      <4> QED
        BY <3>0, <3>2, <4>1 DEF StreamRows
    <3> QED
      BY <1>1, <3>1, <3>2 DEF Appended
  <2>2. stream' \in [Streams -> StreamRows]
    BY <1>1, <2>1, Zenon DEF Appended
  <2> QED
    BY <2>1, <2>2 DEF SameFollowers
<1>2. CASE UNCHANGED stream
  BY <1>0, <1>2 DEF SameFollowers
<1> QED
  BY <1>1, <1>2

\* A job that is queued or running goes on.
LEMMA RunsLemma ==
    ASSUME Inv, NEW j \in Jobs, Busy(job[j]), NEW x \in JobRows,
           job' = [job EXCEPT ![j] = x], RecordOK(x), Busy(x),
           x.board = job[j].board, x.port = job[j].port, x.tell = {},
           stream' = Appended(j) \/ UNCHANGED stream, UNCHANGED <<service, use, session>>
    PROVE  Inv'
<1>1. SameFollowers
  BY AppendedLemma
<1>2. /\ job' \in [Jobs -> JobRows] /\ job'[j] = x
      /\ \A k \in Jobs \ {j} : job'[k] = job[k]
  BY DEF Inv, TypeOK
<1>3. job[j].tell = {}
  BY DEF Inv, RecordsOK, RecordOK
<1>4. TypeOK'
  BY <1>1, <1>2 DEF Inv, TypeOK, SameFollowers
<1>5. RecordsOK'
  BY <1>2 DEF Inv, RecordsOK
<1>6. FollowersOK'
  <2> SUFFICES ASSUME NEW q \in Streams PROVE FollowerOK(stream'[q], q, job')
    BY DEF FollowersOK
  <2>1. FollowerOK(stream[q], q, job)
    BY DEF Inv, FollowersOK
  <2>2. /\ \A k \in Jobs : job'[k].tell = job[k].tell
        /\ \A k \in Jobs : Busy(job'[k]) = Busy(job[k])
        /\ \A k \in Jobs : job[k].status # "none" => job'[k].status # "none"
    BY <1>2, <1>3 DEF Busy
  <2> QED
    BY <1>1, <2>1, <2>2 DEF FollowerOK, SameFollowers
<1>7. WorkIsExclusive'
  <2>1. \A k \in Jobs : Busy(job'[k]) =>
          Busy(job[k]) /\ job'[k].board = job[k].board /\ job'[k].port = job[k].port
    BY <1>2
  <2> QED
    BY <2>1, WorkShrinks
<1> QED
  BY <1>4, <1>5, <1>6, <1>7 DEF Inv

\* A job that is queued or running ends.
LEMMA EndsLemma ==
    ASSUME Inv, NEW j \in Jobs, Busy(job[j]),
           NEW status \in {"succeeded", "failed", "cancelled"},
           Ends(j, status), UNCHANGED <<service, use, session>>
    PROVE  Inv'
<1> DEFINE told == [NoRecord EXCEPT !.status = status, !.at = "tell", !.tell = Followers(j)]
           lost == [NoRecord EXCEPT !.status = status, !.at = "lost"]
<1>0. /\ told \in JobRows /\ told.status = status /\ told.at = "tell" /\ told.tell = Followers(j)
      /\ lost \in JobRows /\ lost.status = status /\ lost.at = "lost" /\ lost.tell = {}
  <2>1. Followers(j) \in SUBSET Streams /\ NoRecord.tell = {}
    BY DEF Followers, NoRecord
  <2> QED
    BY <2>1, RowTypes DEF JobRows, Statuses
<1>a. /\ job' = [job EXCEPT ![j] = told] \/ job' = [job EXCEPT ![j] = lost]
      /\ stream' = Appended(j) \/ UNCHANGED stream
  BY DEF Ends
<1> HIDE DEF told, lost
<1>1. PICK x \in JobRows :
        /\ x.status = status /\ job' = [job EXCEPT ![j] = x]
        /\ (x.at = "tell" /\ x.tell = Followers(j)) \/ (x.at = "lost" /\ x.tell = {})
  BY <1>0, <1>a
<1>2. stream' = Appended(j) \/ UNCHANGED stream
  BY <1>a
<1>3. SameFollowers
  BY <1>2, AppendedLemma
<1>4. /\ job' \in [Jobs -> JobRows] /\ job'[j] = x
      /\ \A k \in Jobs \ {j} : job'[k] = job[k]
  BY <1>1 DEF Inv, TypeOK
<1>5. RecordOK(x) /\ ~Busy(x)
  BY <1>1 DEF RecordOK, Busy
<1>6. TypeOK'
  BY <1>3, <1>4 DEF Inv, TypeOK, SameFollowers
<1>7. RecordsOK'
  BY <1>4, <1>5 DEF Inv, RecordsOK
<1>8. FollowersOK'
  <2> SUFFICES ASSUME NEW q \in Streams PROVE FollowerOK(stream'[q], q, job')
    BY DEF FollowersOK
  <2>1. FollowerOK(stream[q], q, job)
    BY DEF Inv, FollowersOK
  <2>2. /\ q \in x.tell => stream[q].at = "live" /\ stream[q].job = j
        /\ stream[q].at = "live" /\ stream[q].job = j => q \in x.tell \/ x.at = "lost"
    BY <1>1 DEF Followers
  <2>3. x.status # "none"
    BY <1>1
  <2> QED
    BY <1>3, <1>4, <1>5, <2>1, <2>2, <2>3 DEF FollowerOK, SameFollowers
<1>9. WorkIsExclusive'
  <2>1. \A k \in Jobs : Busy(job'[k]) =>
          Busy(job[k]) /\ job'[k].board = job[k].board /\ job'[k].port = job[k].port
    BY <1>4, <1>5
  <2> QED
    BY <2>1, WorkShrinks
<1> QED
  BY <1>6, <1>7, <1>8, <1>9 DEF Inv

\* A process is to be made for the next step.
LEMMA SpawnLemma ==
    ASSUME Inv, NEW j \in Jobs, Busy(job[j]), NEW left \in 0..2,
           job' = [job EXCEPT ![j].status = "running", ![j].at = "spawn", ![j].left = left],
           stream' = Appended(j), UNCHANGED <<service, use, session>>
    PROVE  Inv'
<1> DEFINE x == [job[j] EXCEPT !.status = "running", !.at = "spawn", !.left = left]
<1>0. job \in [Jobs -> JobRows] /\ job[j] \in JobRows /\ job[j].tell = {}
  BY DEF Inv, TypeOK, RecordsOK, RecordOK
<1>1. job' = [job EXCEPT ![j] = x]
  BY <1>0
<1>2. /\ x \in JobRows /\ x.status = "running" /\ x.at = "spawn" /\ x.tell = {}
      /\ x.board = job[j].board /\ x.port = job[j].port
  BY <1>0 DEF JobRows, Statuses
<1> HIDE DEF x
<1>3. RecordOK(x) /\ Busy(x)
  BY <1>2 DEF RecordOK, Busy
<1> QED
  BY <1>1, <1>2, <1>3, RunsLemma

\* The loop over the steps.
LEMMA GoOnLemma ==
    ASSUME Inv, NEW j \in Jobs, Busy(job[j]), GoOn(j), UNCHANGED <<service, use, session>>
    PROVE  Inv'
<1>1. CASE Ends(j, "cancelled") \/ Ends(j, "succeeded")
  BY <1>1, EndsLemma
<1>2. CASE /\ job[j].left > 0
           /\ job' = [job EXCEPT ![j].status = "running", ![j].at = "spawn",
                                 ![j].left = @ - 1]
           /\ stream' = Appended(j)
  <2>0. job \in [Jobs -> JobRows] /\ job[j] \in JobRows
    BY DEF Inv, TypeOK
  <2>1. PICK left \in 0..2 : left = job[j].left - 1
    BY <1>2, <2>0 DEF JobRows
  <2>2. job' = [job EXCEPT ![j].status = "running", ![j].at = "spawn", ![j].left = left]
    BY <1>2, <2>0, <2>1
  <2> QED
    BY <1>2, <2>1, <2>2, SpawnLemma
<1> QED
  BY <1>1, <1>2 DEF GoOn

\* The steps of _run_job up to the end of the job.
LEMMA RunInv ==
    ASSUME Inv, NEW j \in Jobs, BeginJob(j) \/ Spawned(j) \/ Output(j) \/ ProcessEnds(j)
    PROVE  Inv'
<1>0. /\ Busy(job[j]) /\ job[j].at \in {"begin", "spawn", "reads"}
      /\ UNCHANGED <<service, use, session>>
  BY DEF BeginJob, Spawned, Output, ProcessEnds, Inv, RecordsOK, RecordOK
<1>1. CASE BeginJob(j)
  <2>1. CASE /\ job' = [job EXCEPT ![j].status = "running", ![j].at = "spawn", ![j].left = 0]
             /\ stream' = Appended(j)
    <3>1. 0 \in 0..2
      OBVIOUS
    <3> QED
      BY <1>0, <2>1, <3>1, SpawnLemma
  <2>2. CASE BeginFails(j)
    <3> DEFINE x == [job[j] EXCEPT !.status = "running", !.at = "lost"]
    <3>0. job \in [Jobs -> JobRows] /\ job[j] \in JobRows /\ job[j].tell = {}
      BY <1>0 DEF Inv, TypeOK, RecordsOK, RecordOK
    <3>1. job' = [job EXCEPT ![j] = x] /\ UNCHANGED stream
      BY <2>2, <3>0 DEF BeginFails
    <3>2. /\ x \in JobRows /\ x.status = "running" /\ x.at = "lost" /\ x.tell = {}
          /\ x.board = job[j].board /\ x.port = job[j].port
      BY <3>0 DEF JobRows, Statuses
    <3> HIDE DEF x
    <3>3. RecordOK(x) /\ Busy(x)
      BY <3>2 DEF RecordOK, Busy
    <3> QED
      BY <1>0, <3>1, <3>2, <3>3, RunsLemma
  <2> QED
    BY <1>0, <1>1, <2>1, <2>2, GoOnLemma, EndsLemma DEF BeginJob
<1>2. CASE Spawned(j)
  <2>1. CASE job' = [job EXCEPT ![j].at = "reads"] /\ UNCHANGED stream
    <3> DEFINE x == [job[j] EXCEPT !.at = "reads"]
    <3>0. job \in [Jobs -> JobRows] /\ job[j] \in JobRows /\ job[j].tell = {}
      BY <1>0 DEF Inv, TypeOK, RecordsOK, RecordOK
    <3>1. job' = [job EXCEPT ![j] = x]
      BY <2>1, <3>0
    <3>2. /\ x \in JobRows /\ x.status = job[j].status /\ x.at = "reads" /\ x.tell = {}
          /\ x.board = job[j].board /\ x.port = job[j].port
      BY <3>0 DEF JobRows
    <3> HIDE DEF x
    <3>3. RecordOK(x) /\ Busy(x)
      BY <1>0, <3>2 DEF RecordOK, Busy
    <3> QED
      BY <1>0, <2>1, <3>1, <3>2, <3>3, RunsLemma
  <2> QED
    BY <1>0, <1>2, <2>1, EndsLemma DEF Spawned
<1>3. CASE Output(j)
  <2>1. CASE stream' = Appended(j) /\ UNCHANGED job
    <3>1. /\ job[j] \in JobRows /\ job[j].tell = {} /\ RecordOK(job[j])
          /\ job' = [job EXCEPT ![j] = job[j]]
      BY <1>0, <2>1 DEF Inv, TypeOK, RecordsOK, RecordOK
    <3> QED
      BY <1>0, <2>1, <3>1, RunsLemma
  <2> QED
    BY <1>0, <1>3, <2>1, EndsLemma DEF Output
<1>4. CASE ProcessEnds(j)
  BY <1>0, <1>4, GoOnLemma, EndsLemma DEF ProcessEnds
<1> QED
  BY <1>1, <1>2, <1>3, <1>4

\* A request to cancel is noted.
LEMMA CancelInv ==
    ASSUME Inv, NEW j \in Jobs, CancelJob(j)
    PROVE  Inv'
<1> DEFINE x == [job[j] EXCEPT !.cancel = TRUE]
<1>0. /\ job \in [Jobs -> JobRows] /\ job[j] \in JobRows /\ job[j].tell = {} /\ Busy(job[j])
      /\ RecordOK(job[j])
  BY DEF CancelJob, Active, Busy, Inv, TypeOK, RecordsOK, RecordOK
<1>1. job' = [job EXCEPT ![j] = x] /\ UNCHANGED <<service, use, session, stream>>
  BY <1>0 DEF CancelJob
<1>2. /\ x \in JobRows /\ x.status = job[j].status /\ x.at = job[j].at /\ x.tell = {}
      /\ x.board = job[j].board /\ x.port = job[j].port
  BY <1>0 DEF JobRows
<1> HIDE DEF x
<1>3. RecordOK(x) /\ Busy(x)
  BY <1>0, <1>2 DEF RecordOK, Busy
<1> QED
  BY <1>0, <1>1, <1>2, <1>3, RunsLemma

\* A stream that follows nothing is in order while nobody has to tell it.
LEMMA IdleFollower ==
    ASSUME NEW q, NEW rows, \A k \in Jobs : q \notin rows[k].tell
    PROVE  FollowerOK(IdleStream, q, rows)
<1>1. IdleStream.at = "idle" /\ ~IdleStream.told
  BY DEF IdleStream
<1> QED
  BY <1>1 DEF FollowerOK

\* A stream is told the end of a job, or all have been.
LEMMA TellInv ==
    ASSUME Inv, NEW j \in Jobs, RunEnds(j) \/ \E q \in Streams : Tell(j, q)
    PROVE  Inv'
<1>0. /\ job[j].at = "tell" /\ ~Busy(job[j]) /\ job \in [Jobs -> JobRows]
      /\ job[j] \in JobRows /\ UNCHANGED <<service, use, session>>
  BY DEF RunEnds, Tell, Inv, TypeOK, RecordsOK, RecordOK
<1>1. ASSUME NEW x \in JobRows, job' = [job EXCEPT ![j] = x], x.status = job[j].status,
             RecordOK(x), stream' \in [Streams -> StreamRows], FollowersOK'
      PROVE  Inv'
  <2>1. /\ job' \in [Jobs -> JobRows] /\ job'[j] = x
        /\ \A k \in Jobs \ {j} : job'[k] = job[k]
    BY <1>0, <1>1
  <2>2. \A k \in Jobs : Busy(job'[k]) =>
          Busy(job[k]) /\ job'[k].board = job[k].board /\ job'[k].port = job[k].port
    BY <1>0, <1>1, <2>1 DEF Busy
  <2>3. TypeOK'
    BY <1>0, <1>1, <2>1 DEF Inv, TypeOK
  <2>4. RecordsOK'
    BY <1>1, <2>1 DEF Inv, RecordsOK
  <2>5. WorkIsExclusive'
    BY <1>0, <2>2, WorkShrinks
  <2> QED
    BY <1>1, <2>3, <2>4, <2>5 DEF Inv
<1>2. CASE RunEnds(j)
  <2> DEFINE x == [job[j] EXCEPT !.at = "none"]
  <2>1. job' = [job EXCEPT ![j] = x] /\ UNCHANGED stream /\ job[j].tell = {}
    BY <1>0, <1>2 DEF RunEnds
  <2>2. x \in JobRows /\ x.status = job[j].status /\ x.at = "none" /\ x.tell = {}
    BY <1>0, <2>1 DEF JobRows
  <2> HIDE DEF x
  <2>3. RecordOK(x)
    BY <1>0, <2>2 DEF RecordOK, Busy
  <2>4. /\ \A k \in Jobs : job'[k].tell = job[k].tell
        /\ \A k \in Jobs : job'[k].status = job[k].status
        /\ \A k \in Jobs : job[k].at = "lost" => job'[k].at = "lost"
    BY <1>0, <1>2, <2>1, <2>2 DEF RunEnds
  <2>5. FollowersOK'
    <3> SUFFICES ASSUME NEW q \in Streams PROVE FollowerOK(stream'[q], q, job')
      BY DEF FollowersOK
    <3>1. FollowerOK(stream[q], q, job)
      BY DEF Inv, FollowersOK
    <3> QED
      BY <2>1, <2>4, <3>1 DEF FollowerOK, Busy
  <2>6. stream' \in [Streams -> StreamRows]
    BY <2>1 DEF Inv, TypeOK
  <2> QED
    BY <1>1, <2>1, <2>2, <2>3, <2>5, <2>6
<1>3. ASSUME NEW q \in Streams, Tell(j, q) PROVE Inv'
  <2> DEFINE x == [job[j] EXCEPT !.tell = @ \ {q}]
             y == IF stream[q].at = "gone" THEN IdleStream ELSE [stream[q] EXCEPT !.told = TRUE]
  <2>0. stream \in [Streams -> StreamRows] /\ stream[q] \in StreamRows
    BY DEF Inv, TypeOK
  <2>1. job' = [job EXCEPT ![j] = x] /\ stream' = [stream EXCEPT ![q] = y] /\ q \in job[j].tell
    BY <1>0, <1>3, <2>0 DEF Tell
  <2>2. /\ x \in JobRows /\ x.status = job[j].status /\ x.at = "tell"
        /\ x.tell = job[j].tell \ {q}
    BY <1>0 DEF JobRows
  <2>3. /\ stream[q].at \in {"live", "gone"} /\ stream[q].job = j /\ ~stream[q].told
        /\ \A k \in Jobs \ {j} : q \notin job[k].tell
        /\ job[j].status # "none"
    BY <2>1 DEF Inv, FollowersOK, FollowerOK
  <2>4. /\ y \in StreamRows
        /\ stream[q].at = "gone" => y = IdleStream
        /\ stream[q].at = "live" => y.at = "live" /\ y.job = j /\ y.told = TRUE
    <3>1. CASE stream[q].at = "gone"
      BY <3>1, RowTypes
    <3>2. CASE stream[q].at = "live"
      <4>1. y = [stream[q] EXCEPT !.told = TRUE]
        BY <3>2
      <4> QED
        BY <2>0, <2>3, <3>2, <4>1 DEF StreamRows
    <3> QED
      BY <2>3, <3>1, <3>2
  <2> HIDE DEF x, y
  <2>5. RecordOK(x)
    BY <1>0, <2>2 DEF RecordOK, Busy
  <2>6. /\ \A k \in Jobs : job'[k].status = job[k].status
        /\ \A k \in Jobs : job'[k].tell = IF k = j THEN job[k].tell \ {q} ELSE job[k].tell
        /\ \A k \in Jobs : job[k].at = "lost" => job'[k].at = "lost"
    BY <1>0, <1>3, <2>1, <2>2 DEF Tell
  <2>7. stream' \in [Streams -> StreamRows] /\ stream'[q] = y
        /\ \A r \in Streams \ {q} : stream'[r] = stream[r]
    BY <2>0, <2>1, <2>4
  <2>8. FollowersOK'
    <3> SUFFICES ASSUME NEW r \in Streams PROVE FollowerOK(stream'[r], r, job')
      BY DEF FollowersOK
    <3>1. FollowerOK(stream[r], r, job)
      BY DEF Inv, FollowersOK
    <3>2. CASE r # q
      <4>1. stream'[r] = stream[r] /\ \A k \in Jobs : r \in job'[k].tell <=> r \in job[k].tell
        BY <2>6, <2>7, <3>2
      <4> QED
        BY <2>6, <3>1, <4>1 DEF FollowerOK, Busy
    <3>3. CASE r = q /\ stream[q].at = "gone"
      <4>1. stream'[r] = IdleStream /\ \A k \in Jobs : r \notin job'[k].tell
        BY <2>3, <2>4, <2>6, <2>7, <3>3
      <4> QED
        BY <4>1, IdleFollower
    <3>4. CASE r = q /\ stream[q].at = "live"
      BY <1>0, <2>3, <2>4, <2>6, <2>7, <3>4 DEF FollowerOK, Busy
    <3> QED
      BY <2>3, <3>2, <3>3, <3>4
  <2> QED
    BY <1>1, <2>1, <2>2, <2>5, <2>7, <2>8
<1> QED
  BY <1>2, <1>3

\* A job is created where nothing else works.
LEMMA CreateInv ==
    ASSUME Inv, NEW j \in Jobs, NEW b \in Boards, NEW p \in Ports \cup {NoPort},
           NEW steps \in StepCounts, CreateJob(j, b, p, steps)
    PROVE  Inv'
<1>a. PICK at \in {"begin", "lost"} :
        job' = [job EXCEPT ![j] = [NoRecord EXCEPT !.status = "queued", !.board = b,
                                                   !.port = p, !.left = steps, !.at = at]]
  BY DEF CreateJob
<1> DEFINE x == [NoRecord EXCEPT !.status = "queued", !.board = b, !.port = p,
                                 !.left = steps, !.at = at]
<1>0. /\ job \in [Jobs -> JobRows] /\ job[j].status = "none" /\ NoConflict(b, p)
      /\ job' = [job EXCEPT ![j] = x] /\ UNCHANGED <<service, use, session, stream>>
  BY <1>a DEF CreateJob, Inv, TypeOK
<1>1. /\ x \in JobRows /\ x.status = "queued" /\ x.at = at /\ x.board = b
      /\ x.port = p /\ x.tell = {}
  <2>1. NoRecord.tell = {}
    BY DEF NoRecord
  <2> QED
    BY <2>1, RowTypes DEF JobRows, Statuses, StepCounts
<1> HIDE DEF x
<1>2. RecordOK(x) /\ Busy(x) /\ ~Busy(job[j])
  BY <1>0, <1>1 DEF RecordOK, Busy
<1>3. /\ job' \in [Jobs -> JobRows] /\ job'[j] = x
      /\ \A k \in Jobs \ {j} : job'[k] = job[k]
  BY <1>0, <1>1
<1>4. TypeOK'
  BY <1>0, <1>3 DEF Inv, TypeOK
<1>5. RecordsOK'
  BY <1>2, <1>3 DEF Inv, RecordsOK
<1>6. FollowersOK'
  <2> SUFFICES ASSUME NEW q \in Streams PROVE FollowerOK(stream'[q], q, job')
    BY DEF FollowersOK
  <2>1. FollowerOK(stream[q], q, job)
    BY DEF Inv, FollowersOK
  <2>2. q \notin job[j].tell /\ (stream[q].at # "idle" => stream[q].job # j)
    BY <1>0, <2>1 DEF FollowerOK
  <2>3. \A k \in Jobs : q \in job'[k].tell <=> q \in job[k].tell
    BY <1>1, <1>3, <2>2
  <2>4. CASE stream[q].at = "idle"
    <3>1. /\ stream'[q].at = "idle" /\ ~stream'[q].told
          /\ \A k \in Jobs : q \notin job'[k].tell
      BY <1>0, <2>1, <2>3, <2>4 DEF FollowerOK
    <3> QED
      BY <3>1 DEF FollowerOK
  <2>5. CASE stream[q].at # "idle"
    <3>1. stream'[q] = stream[q] /\ job'[stream[q].job] = job[stream[q].job]
      BY <1>0, <1>3, <2>1, <2>2, <2>5 DEF FollowerOK
    <3> QED
      BY <2>1, <2>3, <2>5, <3>1 DEF FollowerOK
  <2> QED
    BY <2>4, <2>5
<1>7. WorkIsExclusive'
  <2> SUFFICES ASSUME NEW k \in Jobs, Busy(job'[k])
               PROVE  /\ job'[k].port # NoPort => use'[job'[k].port] = Free
                      /\ \A l \in Jobs \ {k} : Busy(job'[l]) =>
                           /\ service' = "esp32"
                           /\ job'[k].board # job'[l].board
                           /\ job'[k].port # NoPort => job'[k].port # job'[l].port
    BY DEF WorkIsExclusive, Active, Busy
  <2>1. ASSUME NEW l \in Jobs \ {j}, Busy(job[l])
        PROVE  /\ service = "esp32" /\ job[l].board # b
               /\ p # NoPort => job[l].port # p
    BY <1>0, <2>1 DEF NoConflict, JobsAvailable, Active, Busy
  <2>2. CASE k = j
    BY <1>0, <1>1, <1>3, <2>1, <2>2 DEF NoConflict
  <2>3. CASE k # j
    <3>1. job'[k] = job[k] /\ Busy(job[k])
      BY <1>3, <2>3
    <3>2. job[k].port # NoPort => use[job[k].port] = Free
      BY <3>1 DEF Inv, WorkIsExclusive, Active, Busy
    <3>3. ASSUME NEW l \in Jobs \ {k}, Busy(job'[l])
          PROVE  /\ service = "esp32" /\ job[k].board # job'[l].board
                 /\ job[k].port # NoPort => job[k].port # job'[l].port
      <4>1. CASE l = j
        BY <1>1, <1>3, <2>1, <2>3, <3>1, <4>1
      <4>2. CASE l # j
        BY <1>3, <3>1, <3>3, <4>2 DEF Inv, WorkIsExclusive, Active, Busy
      <4> QED
        BY <4>1, <4>2
    <3> QED
      BY <1>0, <3>1, <3>2, <3>3
  <2> QED
    BY <2>2, <2>3
<1> QED
  BY <1>4, <1>5, <1>6, <1>7 DEF Inv

-----------------------------------------------------------------------------
(* Streams.                                                                 *)

\* One stream changes and stays in order.
LEMMA FollowLemma ==
    ASSUME Inv, NEW q \in Streams, NEW y \in StreamRows, stream' = [stream EXCEPT ![q] = y],
           FollowerOK(y, q, job), UNCHANGED <<service, job, use, session>>
    PROVE  Inv'
<1>1. /\ stream' \in [Streams -> StreamRows] /\ stream'[q] = y
      /\ \A r \in Streams \ {q} : stream'[r] = stream[r]
  BY DEF Inv, TypeOK
<1>2. TypeOK'
  BY <1>1 DEF Inv, TypeOK
<1>3. FollowersOK'
  BY <1>1 DEF Inv, FollowersOK
<1>4. RecordsOK' /\ WorkIsExclusive'
  BY DEF Inv, RecordsOK, WorkIsExclusive, Active
<1> QED
  BY <1>2, <1>3, <1>4 DEF Inv

\* A stream that nobody has to tell ends, and is before no other one.
LEMMA RemovedLemma ==
    ASSUME Inv, NEW q \in Streams, \A j \in Jobs : q \notin job[j].tell,
           stream' = Removed(q), UNCHANGED <<service, job, use, session>>
    PROVE  Inv'
<1>0. stream \in [Streams -> StreamRows] /\ IdleStream \in StreamRows
  BY RowTypes DEF Inv, TypeOK
<1>1. stream' = [r \in Streams |-> IF r = q THEN IdleStream
                                   ELSE [stream[r] EXCEPT !.before = @ \ {q}]]
  BY DEF Removed
<1>2. ASSUME NEW r \in Streams
      PROVE  stream'[r] \in StreamRows /\ FollowerOK(stream'[r], r, job)
  <2>1. CASE r = q
    <3>1. stream'[r] = IdleStream
      BY <1>1, <2>1
    <3> QED
      BY <1>0, <2>1, <3>1, IdleFollower
  <2>2. CASE r # q
    <3> DEFINE z == [stream[r] EXCEPT !.before = stream[r].before \ {q}]
    <3>0. stream[r] \in StreamRows /\ FollowerOK(stream[r], r, job)
      BY <1>0 DEF Inv, FollowersOK
    <3>1. stream'[r] = z
      BY <1>1, <2>2
    <3>2. z \in StreamRows /\ z.at = stream[r].at /\ z.job = stream[r].job
      BY <3>0 DEF StreamRows
    <3>3. z.told = stream[r].told
      BY <3>0, Zenon DEF StreamRows
    <3> HIDE DEF z
    <3>5. FollowerOK(z, r, job)
      BY <3>0, <3>2, <3>3 DEF FollowerOK
    <3> QED
      BY <3>1, <3>2, <3>5
  <2> QED
    BY <2>1, <2>2
<1>3. stream' \in [Streams -> StreamRows]
  BY <1>1, <1>2, Zenon
<1>4. TypeOK'
  BY <1>3 DEF Inv, TypeOK
<1>5. FollowersOK'
  BY <1>2 DEF FollowersOK
<1>6. RecordsOK' /\ WorkIsExclusive'
  BY DEF Inv, RecordsOK, WorkIsExclusive, Active
<1> QED
  BY <1>4, <1>5, <1>6 DEF Inv

\* A browser opens a stream, reads it and goes.
LEMMA FollowInv ==
    ASSUME Inv, NEW q \in Streams, Follow(q)
    PROVE  Inv'
<1>0. /\ stream \in [Streams -> StreamRows] /\ stream[q] \in StreamRows
      /\ FollowerOK(stream[q], q, job) /\ UNCHANGED <<service, job, use, session>>
  BY DEF Follow, OpenStream, Subscribe, ReadLine, Unsubscribe, Inv, TypeOK, FollowersOK
<1>1. ASSUME stream' = [stream EXCEPT ![q] = IdleStream],
             \A j \in Jobs : q \notin job[j].tell
      PROVE  Inv'
  BY <1>0, <1>1, RowTypes, IdleFollower, FollowLemma
<1>2. ASSUME NEW j \in Jobs, OpenStream(q, j) PROVE Inv'
  <2> DEFINE y == [IdleStream EXCEPT !.at = "history", !.job = j]
  <2>1. IdleStream.told = FALSE
    BY DEF IdleStream
  <2>2. y \in StreamRows /\ y.at = "history" /\ y.job = j /\ y.told = FALSE
    BY <2>1, RowTypes DEF StreamRows
  <2>3. /\ stream' = [stream EXCEPT ![q] = y] /\ stream[q].at = "idle"
        /\ job[j].status # "none"
    BY <1>2 DEF OpenStream
  <2> HIDE DEF y
  <2>4. FollowerOK(y, q, job)
    BY <1>0, <2>2, <2>3 DEF FollowerOK
  <2> QED
    BY <1>0, <2>2, <2>3, <2>4, FollowLemma
<1>3. CASE Subscribe(q)
  <2> DEFINE y == AppendedQueue(q)
  <2>1. y \in StreamRows /\ y.at = "live" /\ y.job = stream[q].job /\ y.told = stream[q].told
    <3>1. Followers(stream[q].job) \in SUBSET Streams
      BY DEF Followers
    <3> QED
      BY <1>0, <3>1 DEF StreamRows, AppendedQueue
  <2>2. stream[q].at = "history" /\ \A j \in Jobs : q \notin job[j].tell
    BY <1>0, <1>3 DEF Subscribe, FollowerOK
  <2>3. CASE Active(stream[q].job)
    <3>1. stream' = [stream EXCEPT ![q] = y]
      BY <1>0, <1>3, <2>3 DEF Subscribe
    <3> HIDE DEF y
    <3>2. FollowerOK(y, q, job)
      BY <1>0, <2>1, <2>2, <2>3 DEF FollowerOK, Active, Busy
    <3> QED
      BY <1>0, <2>1, <3>1, <3>2, FollowLemma
  <2>4. CASE ~Active(stream[q].job)
    <3>1. stream' = [stream EXCEPT ![q] = IdleStream]
      BY <1>0, <1>3, <2>4 DEF Subscribe
    <3> QED
      BY <1>1, <2>2, <3>1
  <2> QED
    BY <2>3, <2>4
<1>4. CASE ReadLine(q)
  <2>1. CASE stream[q].lines > 0 /\ stream' = [stream EXCEPT ![q].lines = @ - 1]
    <3> DEFINE y == [stream[q] EXCEPT !.lines = @ - 1]
    <3>1. stream' = [stream EXCEPT ![q] = y]
      BY <1>0, <2>1
    <3>2. stream[q].lines - 1 \in 0..QueueSize
      BY <1>0, <2>1, BoundsAssumption DEF BoundsAssumption, StreamRows
    <3>3. /\ y \in StreamRows /\ y.at = stream[q].at /\ y.job = stream[q].job
          /\ y.told = stream[q].told /\ y.at = "live"
      BY <1>0, <1>4, <3>2 DEF StreamRows, ReadLine
    <3> HIDE DEF y
    <3>4. FollowerOK(y, q, job)
      BY <1>0, <3>3 DEF FollowerOK
    <3> QED
      BY <1>0, <3>1, <3>3, <3>4, FollowLemma
  <2>2. CASE stream[q].told /\ stream' = Removed(q)
    <3>1. \A j \in Jobs : q \notin job[j].tell
      BY <1>0, <2>2 DEF FollowerOK
    <3> QED
      BY <1>0, <2>2, <3>1, RemovedLemma
  <2> QED
    BY <1>4, <2>1, <2>2 DEF ReadLine
<1>5. CASE Unsubscribe(q)
  <2>1. CASE \E j \in Jobs : q \in job[j].tell
    <3> DEFINE y == [stream[q] EXCEPT !.at = "gone"]
    <3>1. stream' = [stream EXCEPT ![q] = y]
      BY <1>0, <1>5, <2>1 DEF Unsubscribe, Removed
    <3>2. y \in StreamRows /\ y.at = "gone" /\ y.job = stream[q].job /\ y.told = stream[q].told
      BY <1>0 DEF StreamRows
    <3> HIDE DEF y
    <3>3. stream[q].at # "idle"
      BY <1>5 DEF Unsubscribe
    <3>4. FollowerOK(y, q, job)
      BY <1>0, <3>2, <3>3 DEF FollowerOK
    <3> QED
      BY <1>0, <3>1, <3>2, <3>4, FollowLemma
  <2>2. CASE \A j \in Jobs : q \notin job[j].tell
    BY <1>0, <1>5, <2>2, RemovedLemma DEF Unsubscribe
  <2> QED
    BY <2>1, <2>2
<1> QED
  BY <1>2, <1>3, <1>4, <1>5 DEF Follow

-----------------------------------------------------------------------------
(* Monitors and probes.                                                     *)

\* Sessions change, and a port is reserved only where no job works.
LEMMA SerialLemma ==
    ASSUME Inv, session' \in [Sessions -> SessionRows],
           \A s \in Sessions : session'[s].at = "waits" => session'[s].port \in Ports,
           use' \in [Ports -> Sessions \cup {Free}], UNCHANGED <<service, job, stream>>,
           \A p \in Ports : \/ use'[p] \in {use[p], Free}
                            \/ \A k \in Jobs : Busy(job[k]) => job[k].port # p
    PROVE  Inv'
<1>1. TypeOK'
  BY DEF Inv, TypeOK
<1>2. RecordsOK' /\ FollowersOK'
  BY DEF Inv, RecordsOK, FollowersOK
<1>3. WorkIsExclusive'
  <2> SUFFICES ASSUME NEW j \in Jobs, Busy(job[j])
               PROVE  /\ job[j].port # NoPort => use'[job[j].port] = Free
                      /\ \A k \in Jobs \ {j} : Busy(job[k]) =>
                           /\ service = "esp32"
                           /\ job[j].board # job[k].board
                           /\ job[j].port # NoPort => job[j].port # job[k].port
    BY DEF WorkIsExclusive, Active, Busy
  <2>1. job[j].port # NoPort => job[j].port \in Ports
    BY DEF Inv, TypeOK, JobRows
  <2>2. job[j].port # NoPort => use[job[j].port] = Free
    BY DEF Inv, WorkIsExclusive, Active, Busy
  <2>3. job[j].port # NoPort => use'[job[j].port] = Free
    BY <2>1, <2>2
  <2> QED
    BY <2>3 DEF Inv, WorkIsExclusive, Active, Busy
<1> QED
  BY <1>1, <1>2, <1>3 DEF Inv

\* Stale reservations go, and nothing else changes.
LEMMA FreshLemma ==
    ASSUME Inv
    PROVE  /\ \A p \in Ports : Fresh(p) \in {use[p], Free}
           /\ [p \in Ports |-> Fresh(p)] \in [Ports -> Sessions \cup {Free}]
<1>1. \A p \in Ports : Fresh(p) \in {use[p], Free} /\ use[p] \in Sessions \cup {Free}
  BY DEF Fresh, Inv, TypeOK
<1> QED
  BY <1>1

\* the sessions after t was asked to close
AskedToClose(holder) ==
    [t \in Sessions |->
       IF t = holder THEN [session[t] EXCEPT !.closing = TRUE] ELSE session[t]]

\* A session that starts over, and the others, one of which may be asked to close.
LEMMA AskedLemma ==
    ASSUME Inv, NEW holder, NEW s \in Sessions, NEW y \in SessionRows,
           y.at = "waits" => y.port \in Ports,
           session' = [AskedToClose(holder) EXCEPT ![s] = y]
    PROVE  /\ session' \in [Sessions -> SessionRows]
           /\ \A t \in Sessions : session'[t].at = "waits" => session'[t].port \in Ports
           /\ \A t \in Sessions \ {s} : t = holder => session'[t].closing = TRUE
<1>1. ASSUME NEW t \in Sessions
      PROVE  /\ AskedToClose(holder)[t] \in SessionRows
             /\ AskedToClose(holder)[t].at = session[t].at
             /\ AskedToClose(holder)[t].port = session[t].port
             /\ t = holder => AskedToClose(holder)[t].closing = TRUE
  <2>0. session[t] \in SessionRows
    BY DEF Inv, TypeOK
  <2> DEFINE x == [session[t] EXCEPT !.closing = TRUE]
  <2>1. /\ x \in SessionRows /\ x.at = session[t].at /\ x.port = session[t].port
        /\ x.closing = TRUE
    BY <2>0 DEF SessionRows
  <2>2. AskedToClose(holder)[t] = IF t = holder THEN x ELSE session[t]
    BY DEF AskedToClose
  <2> HIDE DEF x
  <2> QED
    BY <2>0, <2>1, <2>2
<1>2. AskedToClose(holder) \in [Sessions -> SessionRows]
  BY <1>1, Zenon DEF AskedToClose
<1>3. /\ session' \in [Sessions -> SessionRows] /\ session'[s] = y
      /\ \A t \in Sessions \ {s} : session'[t] = AskedToClose(holder)[t]
  BY <1>2
<1> QED
  BY <1>1, <1>3 DEF Inv, TypeOK

\* One session changes.
LEMMA OneSession ==
    ASSUME Inv, NEW s \in Sessions, NEW y \in SessionRows,
           y.at = "waits" => y.port \in Ports, session' = [session EXCEPT ![s] = y]
    PROVE  /\ session' \in [Sessions -> SessionRows]
           /\ \A t \in Sessions : session'[t].at = "waits" => session'[t].port \in Ports
  BY DEF Inv, TypeOK

\* The row of a session that has ended.
LEMMA IdleRow == IdleSession \in SessionRows /\ IdleSession.at = "idle"
  BY RowTypes DEF IdleSession

\* The row of a session that has just reserved a port.
LEMMA HoldingRow ==
    ASSUME NEW p \in Ports, NEW place \in {"opening", "probing"}
    PROVE  Holding(p, place) \in SessionRows /\ Holding(p, place).at = place
  BY IdleRow DEF Holding, SessionRows

\* The row of a session that waits for a port.
LEMMA WaitingRow ==
    ASSUME NEW p \in Ports, NEW b \in Boards \cup {NoBoard}, NEW h \in Sessions \cup {Free}
    PROVE  LET y == [IdleSession EXCEPT !.at = "waits", !.board = b, !.port = p, !.after = h]
           IN  y \in SessionRows /\ y.port = p
  BY IdleRow DEF SessionRows

\* What one turn of _reserve_serial_monitor does: stale reservations go; the session
\* is refused or waits, or it has the port, which no job works on.
LEMMA ReserveLemma ==
    ASSUME Inv, NEW s \in Sessions, NEW b \in Boards \cup {NoBoard},
           NEW p \in Ports, NEW takeover, Reserve(s, b, p, takeover)
    PROVE  /\ session' \in [Sessions -> SessionRows]
           /\ \A t \in Sessions : session'[t].at = "waits" => session'[t].port \in Ports
           /\ \/ use' = [r \in Ports |-> Fresh(r)]
              \/ /\ JobsAvailable(b, p)
                 /\ use' = [[r \in Ports |-> Fresh(r)] EXCEPT ![p] = s]
                 /\ \A t \in Sessions \ {s} : t = Fresh(p) => session'[t].closing = TRUE
<1>0. Fresh(p) \in Sessions \cup {Free}
  BY FreshLemma DEF Inv, TypeOK
<1>1. CASE /\ use' = [r \in Ports |-> Fresh(r)]
           /\ session' = [session EXCEPT ![s] = IdleSession]
  BY <1>1, IdleRow, OneSession
<1>2. CASE /\ JobsAvailable(b, p)
           /\ use' = [[r \in Ports |-> Fresh(r)] EXCEPT ![p] = s]
           /\ session' = [AskedToClose(Fresh(p)) EXCEPT ![s] = Holding(p, "opening")]
  BY <1>2, HoldingRow, AskedLemma
<1>3. CASE /\ use' = [r \in Ports |-> Fresh(r)]
           /\ session' = [AskedToClose(Fresh(p)) EXCEPT ![s] =
                [IdleSession EXCEPT !.at = "waits", !.board = b, !.port = p,
                                    !.after = Fresh(p)]]
  <2> DEFINE y == [IdleSession EXCEPT !.at = "waits", !.board = b, !.port = p,
                                      !.after = Fresh(p)]
  <2>1. y \in SessionRows /\ y.port = p
    BY <1>0, WaitingRow
  <2>2. session' = [AskedToClose(Fresh(p)) EXCEPT ![s] = y]
    BY <1>3
  <2> HIDE DEF y
  <2>3. /\ session' \in [Sessions -> SessionRows]
        /\ \A t \in Sessions : session'[t].at = "waits" => session'[t].port \in Ports
    BY <2>1, <2>2, AskedLemma
  <2> QED
    BY <1>3, <2>3
<1> QED
  BY <1>1, <1>2, <1>3, Zenon DEF Reserve, AskedToClose

\* A reservation that goes with its session.
LEMMA LeftLemma ==
    ASSUME Inv, NEW s \in Sessions, Left(s)
    PROVE  /\ session' = [session EXCEPT ![s] = IdleSession]
           /\ use' \in [Ports -> Sessions \cup {Free}]
           /\ \A p \in Ports : use'[p] = use[p] \/ (use[p] = s /\ use'[p] = Free)
<1>1. session' = [session EXCEPT ![s] = IdleSession]
  BY DEF Left
<1>2. use \in [Ports -> Sessions \cup {Free}]
  BY DEF Inv, TypeOK
<1>3. /\ use' \in [Ports -> Sessions \cup {Free}]
      /\ \A p \in Ports : use'[p] = use[p] \/ (use[p] = s /\ use'[p] = Free)
  BY <1>2 DEF Left
<1> QED
  BY <1>1, <1>3

\* What a monitor or a probe may do.
LEMMA SerialInv ==
    ASSUME Inv, NEW s \in Sessions, Serial(s)
    PROVE  Inv'
<1>0. /\ session \in [Sessions -> SessionRows] /\ session[s] \in SessionRows
      /\ use \in [Ports -> Sessions \cup {Free}]
  BY DEF Inv, TypeOK
<1>1. ASSUME Left(s), UNCHANGED <<service, job, stream>> PROVE Inv'
  <2>1. /\ session' = [session EXCEPT ![s] = IdleSession]
        /\ use' \in [Ports -> Sessions \cup {Free}]
        /\ \A p \in Ports : use'[p] \in {use[p], Free}
    BY <1>1, LeftLemma
  <2> QED
    BY <1>1, <2>1, IdleRow, OneSession, SerialLemma
<1>2. ASSUME NEW b \in Boards \cup {NoBoard}, NEW p \in Ports, NEW takeover,
             Reserve(s, b, p, takeover), UNCHANGED <<service, job, stream>>
      PROVE  Inv'
  <2>1. /\ session' \in [Sessions -> SessionRows]
        /\ \A t \in Sessions : session'[t].at = "waits" => session'[t].port \in Ports
        /\ \/ use' = [r \in Ports |-> Fresh(r)]
           \/ /\ JobsAvailable(b, p)
              /\ use' = [[r \in Ports |-> Fresh(r)] EXCEPT ![p] = s]
    BY <1>2, ReserveLemma
  <2>2. CASE use' = [r \in Ports |-> Fresh(r)]
    BY <1>2, <2>1, <2>2, FreshLemma, SerialLemma
  <2>3. CASE JobsAvailable(b, p) /\ use' = [[r \in Ports |-> Fresh(r)] EXCEPT ![p] = s]
    <3>1. use' \in [Ports -> Sessions \cup {Free}]
      BY <2>3, FreshLemma
    <3>2. \A r \in Ports \ {p} : use'[r] \in {use[r], Free}
      BY <2>3, FreshLemma
    <3>3. \A k \in Jobs : Busy(job[k]) => job[k].port # p
      BY <2>3, NamesAssumption DEF NamesAssumption, JobsAvailable, Active, Busy
    <3>4. \A r \in Ports : \/ use'[r] \in {use[r], Free}
                          \/ \A k \in Jobs : Busy(job[k]) => job[k].port # r
      BY <3>2, <3>3
    <3> QED
      BY <1>2, <2>1, <3>1, <3>4, SerialLemma
  <2> QED
    BY <2>1, <2>2, <2>3
<1>3. ASSUME NEW y \in SessionRows, y.at = "waits" => y.port \in Ports,
             session' = [session EXCEPT ![s] = y], UNCHANGED <<service, job, use, stream>>
      PROVE  Inv'
  BY <1>0, <1>3, OneSession, SerialLemma
<1>4. ASSUME NEW b \in Boards, NEW p \in Ports, OpenProbe(s, b, p) PROVE Inv'
  <2>1. /\ session' = [session EXCEPT ![s] = Holding(p, "probing")]
        /\ use' = [use EXCEPT ![p] = s] /\ NoConflict(b, p)
        /\ UNCHANGED <<service, job, stream>>
    BY <1>4 DEF OpenProbe
  <2>2. \A k \in Jobs : Busy(job[k]) => job[k].port # p
    BY <2>1, NamesAssumption DEF NamesAssumption, NoConflict, JobsAvailable, Active, Busy
  <2>3. \A r \in Ports : \/ use'[r] \in {use[r], Free}
                        \/ \A k \in Jobs : Busy(job[k]) => job[k].port # r
    BY <1>0, <2>1, <2>2
  <2>4. use' \in [Ports -> Sessions \cup {Free}]
    BY <1>0, <2>1
  <2> QED
    BY <2>1, <2>3, <2>4, HoldingRow, OneSession, SerialLemma
<1>5. ASSUME NEW b \in Boards, NEW p \in Ports, NEW takeover \in BOOLEAN,
             OpenMonitor(s, b, p, takeover)
      PROVE  Inv'
  BY <1>2, <1>5 DEF OpenMonitor
<1>6. CASE TakeOver(s)
  <2>1. /\ session[s].board \in Boards \cup {NoBoard} /\ session[s].port \in Ports
        /\ Reserve(s, session[s].board, session[s].port, TRUE)
        /\ UNCHANGED <<service, job, stream>>
    BY <1>0, <1>6 DEF TakeOver, SessionRows, Inv, TypeOK
  <2> QED
    BY <1>2, <2>1
<1>7. CASE TakeOverFails(s)
  BY <1>3, <1>7, IdleRow DEF TakeOverFails
<1>8. CASE Opened(s)
  <2>1. CASE session' = [session EXCEPT ![s].at = "reading"] /\ UNCHANGED use
    <3> DEFINE y == [session[s] EXCEPT !.at = "reading"]
    <3>1. y \in SessionRows /\ y.at = "reading" /\ session' = [session EXCEPT ![s] = y]
      BY <1>0, <2>1 DEF SessionRows
    <3> HIDE DEF y
    <3> QED
      BY <1>3, <1>8, <2>1, <3>1 DEF Opened
  <2> QED
    BY <1>1, <1>8, <2>1 DEF Opened
<1>9. CASE StopsReading(s)
  <2> DEFINE y == [session[s] EXCEPT !.at = "ending"]
  <2>1. y \in SessionRows /\ y.at = "ending" /\ session' = [session EXCEPT ![s] = y]
    BY <1>0, <1>9 DEF SessionRows, StopsReading
  <2> HIDE DEF y
  <2> QED
    BY <1>3, <1>9, <2>1 DEF StopsReading
<1>10. CASE Ages(s)
  <2> DEFINE y == [session[s] EXCEPT !.old = TRUE]
  <2>1. /\ y \in SessionRows /\ y.at = session[s].at /\ session[s].at # "waits"
        /\ session' = [session EXCEPT ![s] = y]
    BY <1>0, <1>10 DEF SessionRows, Ages, Unopened
  <2> HIDE DEF y
  <2> QED
    BY <1>3, <1>10, <2>1 DEF Ages
<1>11. CASE ProbeEnds(s) \/ Leave(s)
  BY <1>1, <1>11 DEF ProbeEnds, Leave
<1> QED
  BY <1>4, <1>5, <1>6, <1>7, <1>8, <1>9, <1>10, <1>11 DEF Serial

\* Listing the ports drops stale reservations.
LEMMA ListPortsInv ==
    ASSUME Inv, ListPorts
    PROVE  Inv'
<1>1. /\ use' = [p \in Ports |-> Fresh(p)] /\ UNCHANGED <<service, job, session, stream>>
      /\ session \in [Sessions -> SessionRows]
      /\ \A s \in Sessions : session[s].at = "waits" => session[s].port \in Ports
  BY DEF ListPorts, Inv, TypeOK
<1> QED
  BY <1>1, FreshLemma, SerialLemma

\* The process restarts: no job is left queued or running.
LEMMA RestartInv ==
    ASSUME Inv, Restart
    PROVE  Inv'
<1>a. PICK kept \in SUBSET Jobs : job' = [j \in Jobs |-> Reloaded(j, kept)]
  BY DEF Restart
<1>0. /\ job' = [j \in Jobs |-> Reloaded(j, kept)] /\ use' = [p \in Ports |-> Free]
      /\ session' = [s \in Sessions |-> IdleSession]
      /\ stream' = [q \in Streams |-> IdleStream] /\ service' = service
  BY <1>a DEF Restart
<1>1. ASSUME NEW j \in Jobs
      PROVE  /\ Reloaded(j, kept) \in JobRows /\ ~Busy(Reloaded(j, kept)) /\ Reloaded(j, kept).at = "none"
             /\ Reloaded(j, kept).tell = {}
  <2>1. PICK status \in Statuses \ {"queued", "running"} :
          Reloaded(j, kept) = [NoRecord EXCEPT !.status = status]
    <3> DEFINE last == IF service = "esp32" THEN "cancelled" ELSE "failed"
               status == IF ~(job[j].at # "lost") /\ j \notin kept THEN "none"
                         ELSE IF job[j].at # "lost" /\ ~Active(j) THEN job[j].status
                         ELSE last
    <3>1. job[j].status \in Statuses
      BY DEF Inv, TypeOK, JobRows
    <3>2. status \in Statuses \ {"queued", "running"}
      BY <3>1 DEF Active, Statuses
    <3>3. Reloaded(j, kept) = [NoRecord EXCEPT !.status = status]
      BY DEF Reloaded
    <3> HIDE DEF status
    <3> QED
      BY <3>2, <3>3
  <2>2. NoRecord.at = "none" /\ NoRecord.tell = {}
    BY DEF NoRecord
  <2> QED
    BY <2>1, <2>2, RowTypes DEF JobRows, Busy
<1>2. job' \in [Jobs -> JobRows]
  BY <1>0, <1>1
<1>3. TypeOK'
  BY <1>0, <1>2, RowTypes, IdleRow DEF Inv, TypeOK
<1>4. RecordsOK'
  BY <1>0, <1>1 DEF RecordsOK, RecordOK
<1>5. FollowersOK'
  BY <1>0, <1>1, IdleFollower DEF FollowersOK
<1>6. WorkIsExclusive'
  BY <1>0, <1>1 DEF WorkIsExclusive, Active, Busy
<1> QED
  BY <1>3, <1>4, <1>5, <1>6 DEF Inv

-----------------------------------------------------------------------------
(* The whole.                                                               *)

\* The invariant holds in every reachable state.
THEOREM Invariance == Spec => []Inv
<1>1. ASSUME Inv, [Next]_vars PROVE Inv'
  <2>1. CASE UNCHANGED vars
    <3>1. TypeOK'
      BY <1>1, <2>1 DEF Inv, TypeOK, vars
    <3>2. RecordsOK' /\ FollowersOK' /\ WorkIsExclusive'
      BY <1>1, <2>1 DEF Inv, RecordsOK, FollowersOK, WorkIsExclusive, Active, vars
    <3> QED
      BY <3>1, <3>2 DEF Inv
  <2>2. ASSUME NEW j \in Jobs, Run(j) \/ CancelJob(j) PROVE Inv'
    BY <1>1, <2>2, RunInv, TellInv, CancelInv DEF Run
  <2> QED
    BY <1>1, <2>1, <2>2, CreateInv, SerialInv, FollowInv, ListPortsInv, RestartInv DEF Next
<1> QED
  BY <1>1, InitInv, PTL DEF Spec

\* Records, reservations, sessions and queues keep their shape; no queue grows beyond
\* its size.
THEOREM TypeCorrect == Spec => []TypeOK
  BY Invariance, PTL DEF Inv

\* Work is exclusive: jobs share neither board nor port with each other, nor a port
\* with a monitor or probe (_assert_no_conflict, _reserve_serial_monitor).
THEOREM ExclusiveWork == Spec => []WorkIsExclusive
  BY Invariance, PTL DEF Inv

\* A job that is queued or running has a task, unless a write that failed outside the
\* try of _run_job, or in create_job, took it away; after a restart no job is queued or
\* running without one (_load_history).
THEOREM RunnersExist == Spec => []ActiveHasRunner
<1>1. Inv => ActiveHasRunner
  BY DEF Inv, RecordsOK, RecordOK, ActiveHasRunner, Active, Busy
<1> QED
  BY <1>1, Invariance, PTL

\* A stream on a job that has ended was told or is in the list that the job's task works
\* off in order, unless the job's last record could not be written (stream_job,
\* _run_job).
THEOREM StreamsAreListed == Spec => []NoStreamIsForgotten
<1>1. Inv => NoStreamIsForgotten
  BY DEF Inv, FollowersOK, FollowerOK, NoStreamIsForgotten, Active, Busy
<1> QED
  BY <1>1, Invariance, PTL

\* A port that changes hands: what became of the session s that had reserved it.
LEMMA PortLemma ==
    ASSUME Inv, [Next]_vars, NEW p \in Ports, NEW s \in Sessions, use[p] = s, use'[p] # s
    PROVE  \/ session[s].closing \/ session'[s].closing
           \/ session[s].old /\ Unopened(s)
           \/ session'[s].at = "idle"
<1> DEFINE Gone == \/ session[s].closing \/ session'[s].closing
                   \/ session[s].old /\ Unopened(s)
                   \/ session'[s].at = "idle"
<1>0. /\ use \in [Ports -> Sessions \cup {Free}] /\ session \in [Sessions -> SessionRows]
      /\ s # Free
  BY NamesAssumption DEF NamesAssumption, Inv, TypeOK
<1>1. Fresh(p) # s => session[s].closing \/ (session[s].old /\ Unopened(s))
  BY DEF Fresh
<1>2. CASE UNCHANGED use
  BY <1>2
<1>3. CASE use' = [r \in Ports |-> Fresh(r)]
  BY <1>1, <1>3
<1>4. ASSUME NEW t \in Sessions, Left(t) PROVE Gone
  <2>1. t = s /\ session' = [session EXCEPT ![t] = IdleSession]
    BY <1>0, <1>4, LeftLemma
  <2> QED
    BY <1>0, <2>1, IdleRow
<1>5. ASSUME NEW t \in Sessions, NEW b \in Boards \cup {NoBoard}, NEW q \in Ports,
             NEW takeover, Reserve(t, b, q, takeover)
      PROVE  Gone
  <2>1. \/ use' = [r \in Ports |-> Fresh(r)]
        \/ /\ use' = [[r \in Ports |-> Fresh(r)] EXCEPT ![q] = t]
           /\ \A u \in Sessions \ {t} : u = Fresh(q) => session'[u].closing = TRUE
    BY <1>5, ReserveLemma
  <2>2. CASE /\ use' = [[r \in Ports |-> Fresh(r)] EXCEPT ![q] = t]
             /\ \A u \in Sessions \ {t} : u = Fresh(q) => session'[u].closing = TRUE
    <3>1. CASE p = q
      <4>1. use'[p] = t /\ s # t
        BY <2>2, <3>1
      <4>2. Fresh(p) = s => session'[s].closing = TRUE
        BY <2>2, <3>1, <4>1
      <4> QED
        BY <1>1, <4>2
    <3>2. CASE p # q
      <4>1. use'[p] = Fresh(p)
        BY <2>2, <3>2
      <4> QED
        BY <1>1, <4>1
    <3> QED
      BY <3>1, <3>2
  <2> QED
    BY <1>3, <2>1, <2>2
<1>6. ASSUME NEW t \in Sessions, NEW b \in Boards, NEW q \in Ports, OpenProbe(t, b, q)
      PROVE  Gone
  <2>1. use' = [use EXCEPT ![q] = t] /\ use[q] = Free
    BY <1>6, NamesAssumption DEF NamesAssumption, OpenProbe, NoConflict
  <2> QED
    BY <1>0, <2>1
<1>7. ASSUME NEW t \in Sessions, Serial(t) PROVE Gone
  <2>1. CASE TakeOver(t)
    <3>1. /\ session[t].board \in Boards \cup {NoBoard} /\ session[t].port \in Ports
          /\ Reserve(t, session[t].board, session[t].port, TRUE)
      BY <1>0, <2>1 DEF TakeOver, SessionRows, Inv, TypeOK
    <3> QED
      BY <1>5, <3>1
  <2>2. CASE TakeOverFails(t) \/ StopsReading(t) \/ Ages(t)
    BY <1>2, <2>2 DEF TakeOverFails, StopsReading, Ages
  <2>3. CASE Opened(t) \/ ProbeEnds(t) \/ Leave(t)
    BY <1>2, <1>4, <2>3 DEF Opened, ProbeEnds, Leave
  <2>4. ASSUME NEW b \in Boards, NEW q \in Ports, NEW takeover \in BOOLEAN,
               OpenMonitor(t, b, q, takeover)
        PROVE  Gone
    BY <1>5, <2>4 DEF OpenMonitor
  <2> QED
    BY <1>6, <1>7, <2>1, <2>2, <2>3, <2>4 DEF Serial
<1>8. CASE Restart
  BY <1>8, IdleRow DEF Restart
<1>9. ASSUME NEW j \in Jobs, Run(j) \/ CancelJob(j) PROVE UNCHANGED use
  BY <1>9 DEF Run, CancelJob, BeginJob, Spawned, Output, ProcessEnds, RunEnds, Tell
<1>10. ASSUME NEW q \in Streams, Follow(q) PROVE UNCHANGED use
  BY <1>10 DEF Follow, OpenStream, Subscribe, ReadLine, Unsubscribe
<1>11. ASSUME NEW j \in Jobs, NEW b \in Boards, NEW q \in Ports \cup {NoPort},
              NEW steps \in StepCounts, CreateJob(j, b, q, steps)
       PROVE  UNCHANGED use
  BY <1>11 DEF CreateJob
<1>12. CASE ListPorts
  BY <1>3, <1>12 DEF ListPorts
<1>13. CASE UNCHANGED vars
  BY <1>2, <1>13 DEF vars
<1> HIDE DEF Gone
<1>14. Gone
  BY <1>2, <1>7, <1>8, <1>9, <1>10, <1>11, <1>12, <1>13 DEF Next, Gone
<1> QED
  BY <1>14 DEF Gone

\* A monitor or probe keeps its reservation until it leaves, is asked to, or has held
\* it too long unopened (_drop_stale_serial_reservations, the finally of both).
THEOREM PortsAreKept == Spec => SessionKeepsItsPort
<1>1. Inv /\ [Next]_vars =>
        [\A p \in Ports, s \in Sessions : use[p] = s /\ use'[p] # s =>
           \/ session[s].closing \/ session'[s].closing
           \/ session[s].old /\ Unopened(s)
           \/ session'[s].at = "idle"]_vars
  BY PortLemma
<1> QED
  BY <1>1, Invariance, PTL DEF Spec, SessionKeepsItsPort

\* A job that ends is told of, whatever it was about to do.
LEMMA EndsTells ==
    ASSUME Inv, NEW j \in Jobs, NEW k \in Jobs, NEW status, Ends(j, status)
    PROVE  job'[k].at \in {"tell", "lost"} \/ job'[k] = job[k]
<1> DEFINE x == [NoRecord EXCEPT !.status = status, !.at = "tell", !.tell = Followers(j)]
           y == [NoRecord EXCEPT !.status = status, !.at = "lost"]
<1>1. /\ job' = [job EXCEPT ![j] = x] \/ job' = [job EXCEPT ![j] = y]
      /\ job \in [Jobs -> JobRows]
  BY DEF Ends, Inv, TypeOK
<1>2. x.at = "tell" /\ y.at = "lost"
  BY DEF NoRecord
<1> HIDE DEF x, y
<1> QED
  BY <1>1, <1>2

\* A step of the task of a job j, seen from a job k that is to be cancelled.
LEMMA StepsLemma ==
    ASSUME Inv, NEW j \in Jobs, NEW k \in Jobs, Run(j) \/ CancelJob(j),
           job[k].cancel, service = "esp32", job[k].at # "spawn"
    PROVE  job'[k].at # "spawn"
<1>0. job \in [Jobs -> JobRows]
  BY DEF Inv, TypeOK
<1>1. ASSUME NEW status, Ends(j, status) PROVE job'[k].at # "spawn"
  BY <1>1, EndsTells
<1>2. ASSUME GoOn(j) PROVE job'[k].at # "spawn"
  <2>1. CASE k = j
    BY <1>1, <1>2, <2>1 DEF GoOn
  <2>2. CASE k # j
    BY <1>0, <1>1, <1>2, <2>2 DEF GoOn
  <2> QED
    BY <2>1, <2>2
<1>3. CASE BeginJob(j)
  <2>1. CASE BeginFails(j)
    BY <1>0, <2>1 DEF BeginFails, JobRows
  <2> QED
    BY <1>1, <1>2, <1>3, <2>1 DEF BeginJob
<1>4. CASE ProcessEnds(j)
  BY <1>1, <1>2, <1>4 DEF ProcessEnds
<1>5. CASE Spawned(j)
  BY <1>0, <1>1, <1>5 DEF Spawned, JobRows
<1>6. CASE Output(j)
  BY <1>1, <1>6 DEF Output
<1>7. CASE RunEnds(j)
  BY <1>0, <1>7 DEF RunEnds, JobRows
<1>8. ASSUME NEW q \in Streams, Tell(j, q) PROVE job'[k].at # "spawn"
  BY <1>0, <1>8 DEF Tell, JobRows
<1>9. CASE CancelJob(j)
  BY <1>0, <1>9 DEF CancelJob, JobRows
<1> QED
  BY <1>3, <1>4, <1>5, <1>6, <1>7, <1>8, <1>9 DEF Run

\* Once an ESP32 job is to be cancelled, its loop over the steps makes no further
\* process (the check of cancel_requested at the top of _run_job's loop).
THEOREM CancelIsObeyed == Spec => CancelStopsSteps
<1>1. ASSUME Inv, [Next]_vars, NEW k \in Jobs,
             job[k].cancel, service = "esp32", job[k].at # "spawn"
      PROVE  job'[k].at # "spawn"
  <2>0. job \in [Jobs -> JobRows]
    BY <1>1 DEF Inv, TypeOK
  <2>1. CASE \E j \in Jobs : Run(j) \/ CancelJob(j)
    BY <1>1, <2>1, StepsLemma
  <2>2. ASSUME NEW j \in Jobs, NEW b \in Boards, NEW p \in Ports \cup {NoPort},
               NEW steps \in StepCounts, CreateJob(j, b, p, steps)
        PROVE  job'[k].at # "spawn"
    <3>0. PICK at \in {"begin", "lost"} :
            job' = [job EXCEPT ![j] = [NoRecord EXCEPT !.status = "queued", !.board = b,
                                                       !.port = p, !.left = steps, !.at = at]]
      BY <2>2 DEF CreateJob
    <3> DEFINE x == [NoRecord EXCEPT !.status = "queued", !.board = b, !.port = p,
                                     !.left = steps, !.at = at]
    <3>1. job' = [job EXCEPT ![j] = x]
      BY <3>0
    <3>2. x.at = at
      BY DEF NoRecord
    <3> HIDE DEF x
    <3> QED
      BY <1>1, <2>0, <3>1, <3>2
  <2>3. CASE Restart
    <3>1. PICK kept : job'[k] = Reloaded(k, kept)
      BY <2>3 DEF Restart
    <3>2. Reloaded(k, kept).at = "none"
      BY DEF Reloaded, NoRecord
    <3> QED
      BY <3>1, <3>2
  <2>4. CASE ListPorts \/ UNCHANGED vars
    BY <1>1, <2>4 DEF ListPorts, vars
  <2>5. ASSUME NEW s \in Sessions, Serial(s) PROVE UNCHANGED job
    BY <2>5 DEF Serial, OpenProbe, OpenMonitor, TakeOver, TakeOverFails, Opened,
                StopsReading, ProbeEnds, Leave, Ages, Reserve, Left
  <2>6. ASSUME NEW q \in Streams, Follow(q) PROVE UNCHANGED job
    BY <2>6 DEF Follow, OpenStream, Subscribe, ReadLine, Unsubscribe
  <2> QED
    BY <1>1, <2>1, <2>2, <2>3, <2>4, <2>5, <2>6 DEF Next
<1>2. Inv /\ [Next]_vars =>
        [\A j \in Jobs : job[j].cancel /\ service = "esp32" /\ job[j].at # "spawn"
           => job'[j].at # "spawn"]_vars
  BY <1>1
<1> QED
  BY <1>2, Invariance, PTL DEF Spec, CancelStopsSteps
=============================================================================
