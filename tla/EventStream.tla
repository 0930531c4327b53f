----------------------------- MODULE EventStream -----------------------------
(***************************************************************************)
(* GET /jobs/{id}/events of app/main.py: a generator that polls a job and  *)
(* yields server-sent events.  At every yield, and between two polls, it   *)
(* is suspended and the job moves on (JobLifecycle).                       *)
(***************************************************************************)
EXTENDS JobLifecycle

CONSTANT Watched   \* the job of the stream

ASSUME StreamAssumption ==
  /\ Watched \in Jobs
  /\ MaxBatch \in Nat \ {0}

VARIABLES
  pc,     \* where the generator is suspended
  snap,   \* its local variable snap
  last,   \* its local variable last
  sent    \* the event that was yielded last

streamVars == <<life, pc, snap, last, sent>>

terminal == {"completed", "cancelled"}

snapshot == life[Watched]

Event(name, data) == [event |-> name, data |-> data]

StreamInit ==
  /\ LifeInit
  /\ pc = "closed"
  /\ snap = NoLife
  /\ last = -1
  /\ sent = Event("none", NoLife)

(* A job the store does not know is a 404.                                 *)
Open ==
  /\ pc = "closed"
  /\ snapshot.state # "none"
  /\ sent' = Event("job_started", snapshot)
  /\ pc' = "started"
  /\ UNCHANGED <<life, snap, last>>

(* Mutant: a job that got all its answers is taken for completed.          *)
FinishByCount(s) ==
  IF snapshot.state \in terminal
  THEN /\ sent' = Event(IF s.completed = s.total THEN "completed"
                        ELSE snapshot.state, s)
       /\ pc' = "final"
  ELSE pc' = "poll" /\ UNCHANGED sent

(* The end of the loop's body: the state is read now, s was read before.   *)
Finish(s) ==
  IF snapshot.state \in terminal
  THEN sent' = Event(snapshot.state, s) /\ pc' = "final"
  ELSE pc' = "poll" /\ UNCHANGED sent

(* Mutant: the end of the job is looked for only after progress.           *)
PollOnlyProgress ==
  /\ pc \in {"started", "poll"}
  /\ snap' = snapshot
  /\ IF snapshot.completed # last
     THEN sent' = Event("progress", snapshot) /\ pc' = "progress"
     ELSE pc' = "poll" /\ UNCHANGED sent
  /\ UNCHANGED <<life, last>>

(* One turn of the loop, up to the yield of a progress event if there is   *)
(* one, else to its end.                                                   *)
Poll ==
  /\ pc \in {"started", "poll"}
  /\ snap' = snapshot
  /\ IF snapshot.completed # last
     THEN sent' = Event("progress", snapshot) /\ pc' = "progress"
     ELSE Finish(snapshot)
  /\ UNCHANGED <<life, last>>

(* The generator resumes after the yield of a progress event.              *)
AfterProgress ==
  /\ pc = "progress"
  /\ last' = snapshot.completed
  /\ Finish(snap)
  /\ UNCHANGED <<life, snap>>

Return ==
  /\ pc = "final"
  /\ pc' = "done"
  /\ UNCHANGED <<life, snap, last, sent>>

(* The client goes away; the generator notices at a poll or is closed.     *)
Disconnect ==
  /\ pc \in {"started", "poll", "progress", "final"}
  /\ pc' = "gone"
  /\ UNCHANGED <<life, snap, last, sent>>

StreamStep == Poll \/ AfterProgress \/ Return

JobStep == LifeNext /\ UNCHANGED <<pc, snap, last, sent>>

StreamNext == Open \/ StreamStep \/ Disconnect \/ JobStep

(* The event loop resumes the generator when its sleep or send is over.    *)
StreamSpec ==
  StreamInit /\ [][StreamNext]_streamVars /\ WF_streamVars(StreamStep)

-----------------------------------------------------------------------------
Snapshots == [state : {"none", "running"} \cup terminal, total : 0..MaxBatch,
              completed : 0..MaxBatch, succeeded : 0..MaxBatch,
              failed : 0..MaxBatch]

(* Type invariant; no job gets more answers than it has prompts.           *)
StreamTypeOK ==
  /\ life \in [Jobs -> Snapshots]
  /\ \A j \in Jobs : life[j].completed <= life[j].total
  /\ pc \in {"closed", "started", "poll", "progress", "final", "done", "gone"}
  /\ snap \in Snapshots
  /\ last \in -1..MaxBatch
  /\ sent.data \in Snapshots

(***************************************************************************)
(* The name of the last event is the state the job ended in, although the  *)
(* job may change while the generator is suspended, and answers may arrive *)
(* after a cancel.                                                         *)
(***************************************************************************)
FinalNameIsTrue == pc \in {"final", "done"} => sent.event = snapshot.state

(***************************************************************************)
(* A client that stays is told when the job ends, also when the job is     *)
(* cancelled without any progress since the last event.                    *)
(***************************************************************************)
EndIsTold ==
  (pc # "closed" /\ snapshot.state \in terminal) ~> pc \in {"final", "done", "gone"}

(***************************************************************************)
(* "stream of a job's lifecycle (progress + terminal)" (app/main.py:393)   *)
(* and "a consistent point-in-time view" (app/models.py:200): the data of  *)
(* the terminal event show the job in its terminal state.                  *)
(***************************************************************************)
FinalEventIsFinal == pc = "final" => sent.data.state = sent.event

=============================================================================
