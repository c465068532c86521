------------------------------ MODULE JobQueue ------------------------------
(***************************************************************************)
(* One BullMQ job, known by a jobId, as the queue modules under            *)
(* src/queues use it: add with a delay, getJob followed by remove, and the *)
(* worker that takes the job when its delay is over.  BullMQ itself is     *)
(* outside the repository.                                                 *)
(*                                                                         *)
(* A jobId in use, also by the job whose handler is running, makes add do  *)
(* nothing.  remove fails on a job that a worker holds.  A job that has    *)
(* run is gone where the queue says removeOnComplete, and kept under its   *)
(* id where it does not.                                                   *)
(***************************************************************************)
EXTENDS Integers

NoJob == [state |-> "none", due |-> 0]

Job(Times) == [state : {"none", "delayed", "active", "kept"}, due : Times]

\* queue.add(name, data, { jobId, delay }).
JobAdd(job, due) ==
    IF job.state = "none" THEN [state |-> "delayed", due |-> due] ELSE job

\* (await queue.getJob(jobId))?.remove() fails on an active job.
JobRemovable(job) == job.state # "active"

\* A worker takes a job whose delay is over.
JobReady(job, now) == job.state = "delayed" /\ job.due <= now
JobTaken(job) == [job EXCEPT !.state = "active"]

=============================================================================
