------------------------------- MODULE Intake -------------------------------
(***************************************************************************)
(* The intake of documents: POST /documents stores the raw file, makes a   *)
(* task for the document worker and accepts the upload; the worker parses  *)
(* the file, stores the pages and announces them.  Storage, queue and      *)
(* topic are external.  The queue delivers a task at least once, to a      *)
(* second worker while the first is still busy if that takes too long, and *)
(* again after every failure, until a delivery succeeds.  It delivers to   *)
(* the URL the task names, /internal/workers/document, which none of the   *)
(* routers of the application serves: only a deployment that puts the      *)
(* worker behind that URL by other means ever sees a delivery.             *)
(***************************************************************************)
EXTENDS Absent, Naturals, FiniteSets

CONSTANTS
  Docs,      \* uploads, each with a doc_id of its own
  Workers,   \* deliveries the queue has under way at once
  MaxFaults, \* bound: exceptions and crashes of uploads and workers
  Served     \* whether anything answers at the URL of the tasks

(* What Services assumes of these constants. *)
IntakeFit == MaxFaults \in Nat /\ None \notin Docs /\ Served \in BOOLEAN

VARIABLES
  upload,    \* absent, stored (the raw file), accepted (202), refused (500)
  tasks,     \* documents with a task the queue still has to see succeed
  worker,    \* the document and the next step of each delivery under way
  parsed,    \* documents whose pages are stored
  announced, \* document-parsed events
  faults

IntakeVars == <<upload, tasks, worker, parsed, announced, faults>>

Free == [doc |-> None, next |-> "none"]

IntakeInit ==
  /\ upload = [d \in Docs |-> "absent"]
  /\ tasks = {}
  /\ worker = [w \in Workers |-> Free]
  /\ parsed = {}
  /\ announced = {}
  /\ faults = 0

Fault == faults < MaxFaults /\ faults' = faults + 1
-----------------------------------------------------------------------------
UploadRaw(d) ==
  /\ upload[d] = "absent"
  /\ upload' = [upload EXCEPT ![d] = "stored"]
  /\ UNCHANGED <<tasks, worker, parsed, announced, faults>>

EnqueueWorker(d) ==
  /\ upload[d] = "stored"
  /\ upload' = [upload EXCEPT ![d] = "accepted"]
  /\ tasks' = tasks \cup {d}
  /\ UNCHANGED <<worker, parsed, announced, faults>>

(* Storing or enqueueing raises, or the process dies in between: a raw     *)
(* file may stay behind, and the task may have been made all the same.     *)
UploadFails(d) ==
  /\ upload[d] \in {"absent", "stored"}
  /\ Fault
  /\ upload' = [upload EXCEPT ![d] = "refused"]
  /\ \/ UNCHANGED tasks
     \/ upload[d] = "stored" /\ tasks' = tasks \cup {d}
  /\ UNCHANGED <<worker, parsed, announced>>
-----------------------------------------------------------------------------
Deliver(w, d) ==
  /\ Served
  /\ worker[w] = Free
  /\ d \in tasks
  /\ worker' = [worker EXCEPT ![w] = [doc |-> d, next |-> "process_pdf"]]
  /\ UNCHANGED <<upload, tasks, parsed, announced, faults>>

At(w, step) == worker[w].doc # None /\ worker[w].next = step

(* download_raw, process_pdf and save_parsed: the pages are stored under   *)
(* the doc_id, over those of an earlier delivery.                          *)
SaveParsed(w) ==
  /\ At(w, "process_pdf")
  /\ parsed' = parsed \cup {worker[w].doc}
  /\ worker' = [worker EXCEPT ![w].next = "publish_event"]
  /\ UNCHANGED <<upload, tasks, announced, faults>>

PublishEvent(w) ==
  /\ At(w, "publish_event")
  /\ announced' = announced \cup {worker[w].doc}
  /\ worker' = [worker EXCEPT ![w].next = "return"]
  /\ UNCHANGED <<upload, tasks, parsed, faults>>

(* The worker returns and the queue forgets the task. *)
Acknowledge(w) ==
  /\ At(w, "return")
  /\ tasks' = tasks \ {worker[w].doc}
  /\ worker' = [worker EXCEPT ![w] = Free]
  /\ UNCHANGED <<upload, parsed, announced, faults>>

(* Fault: the queue takes a failed delivery for a finished one. *)
WorkerFailsAcknowledged(w) ==
  /\ worker[w] # Free
  /\ Fault
  /\ tasks' = tasks \ {worker[w].doc}
  /\ worker' = [worker EXCEPT ![w] = Free]
  /\ UNCHANGED <<upload, parsed, announced>>

(* A step raises or the worker dies, after its effect or before: the queue *)
(* will deliver the task again.                                            *)
WorkerFails(w) ==
  /\ worker[w] # Free
  /\ Fault
  /\ worker' = [worker EXCEPT ![w] = Free]
  /\ UNCHANGED <<upload, tasks, parsed, announced>>

WorkerStep(w) == SaveParsed(w) \/ PublishEvent(w) \/ Acknowledge(w)

IntakeNext ==
  \/ \E d \in Docs : UploadRaw(d) \/ EnqueueWorker(d) \/ UploadFails(d)
  \/ \E w \in Workers :
       \/ \E d \in Docs : Deliver(w, d)
       \/ WorkerStep(w)
       \/ WorkerFails(w)

IntakeSpec == IntakeInit /\ [][IntakeNext]_IntakeVars
-----------------------------------------------------------------------------
IntakeTypeOK ==
  /\ upload \in [Docs -> {"absent", "stored", "accepted", "refused"}]
  /\ tasks \subseteq Docs
  /\ worker \in [Workers -> [doc: Docs \cup {None},
       next: {"none", "process_pdf", "publish_event", "return"}]]
  /\ parsed \subseteq Docs
  /\ announced \subseteq Docs
  /\ faults \in 0..MaxFaults

(* Whatever fails in between, an accepted document is announced or still   *)
(* has its task, and what is announced can be read: also when two workers  *)
(* have the same document and the slower one fails after the faster one    *)
(* has finished it.                                                        *)
AcceptedIsNotLost ==
  /\ \A d \in Docs : upload[d] = "accepted" => d \in tasks \cup announced
  /\ announced \subseteq parsed
=============================================================================
