---------------------------- MODULE UploadQueue ----------------------------
(***************************************************************************)
(* The upload queue of the data-collection plugin (UploadManager in         *)
(* data_collection/upload.rs).  Every method runs alone (&mut self), and    *)
(* do_upload is a synchronous placeholder: an upload succeeds when the file *)
(* exists.  Jobs are queued when they are made, so their creation times are  *)
(* the order of the calls.                                                  *)
(***************************************************************************)
EXTENDS Integers, Sequences, FiniteSets, SequencesExt

CONSTANTS Priorities,  \* priorities callers pass to with_priority
          MaxQueued    \* bound: length of the queue callers add jobs to

ASSUME UploadAssumption ==
  Priorities \subseteq Int /\ 0 \in Priorities /\ MaxQueued \in Nat

VARIABLES
  queue,        \* Vec<UploadJob>
  cancel_flag,
  sent          \* history: episodes whose upload succeeded

upVars == <<queue, cancel_flag, sent>>

Job(e, p) == [ep |-> e, priority |-> p]

UpInit == queue = << >> /\ cancel_flag = FALSE /\ sent = {}

-----------------------------------------------------------------------------
\* Mutant: the new job goes to the end.
PushLast(q, job) == Append(q, job)

\* enqueue: a queued episode is not queued twice; sort_by keeps the vector in
\* descending priority, older jobs first.
Pushed(q, job) ==
  LET ahead == {i \in DOMAIN q : q[i].priority >= job.priority}
  IN  IF \E i \in DOMAIN q : q[i].ep = job.ep THEN q
      ELSE InsertAt(q, Cardinality(ahead) + 1, job)

\* process_next takes the job from the end of the vector.  Callers see the
\* result of that job, whichever it is.
Process(q, exists) ==
  IF cancel_flag \/ q = << >>
    THEN queue' = q /\ UNCHANGED sent
    ELSE /\ queue' = Front(q)
         /\ sent' = IF Last(q).ep \in exists THEN sent \cup {Last(q).ep} ELSE sent

Enqueue(e, p) ==
  /\ Len(queue) < MaxQueued
  /\ queue' = Pushed(queue, Job(e, p))
  /\ UNCHANGED <<cancel_flag, sent>>

ProcessNext(exists) ==
  /\ Process(queue, exists)
  /\ UNCHANGED cancel_flag

\* upload_episode for an entry: checks the file, queues it, processes one job.
UploadEpisode(e, exists) ==
  IF e \notin exists THEN UNCHANGED upVars
  ELSE /\ Process(Pushed(queue, Job(e, 0)), exists)
       /\ UNCHANGED cancel_flag

CancelAll ==
  /\ cancel_flag' = TRUE /\ queue' = << >>
  /\ UNCHANGED sent

\* retain: the jobs of the other episodes, in their order.
Retained(q, e) ==
  LET kept[i \in 0..Len(q)] ==
        IF i = 0 THEN << >>
        ELSE IF q[i].ep # e THEN Append(kept[i - 1], q[i]) ELSE kept[i - 1]
  IN  kept[Len(q)]

Cancel(e) ==
  /\ queue' = Retained(queue, e)
  /\ UNCHANGED <<cancel_flag, sent>>

-----------------------------------------------------------------------------
(* Properties *)

UpTypeOK(eps) ==
  /\ queue \in Seq([ep : eps, priority : Priorities])
  /\ cancel_flag \in BOOLEAN /\ sent \subseteq eps

\* However jobs are added, cancelled and taken, the queue holds each episode
\* once and stays in descending priority.
QueueInOrder ==
  \A i, j \in DOMAIN queue : i < j =>
    queue[i].ep # queue[j].ep /\ queue[i].priority >= queue[j].priority

\* "Priority (higher = more urgent)" (upload.rs:624): no job is taken while a
\* more urgent one waits.
\* The code does not keep it: README, "Statements the code does not keep".
UrgentFirst ==
  [][\A i, j \in DOMAIN queue :
       (queue[i].priority > queue[j].priority /\ sent' = sent \cup {queue[j].ep})
         => queue[j].ep \in sent]_upVars
=============================================================================
