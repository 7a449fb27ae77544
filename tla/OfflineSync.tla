----------------------------- MODULE OfflineSync -----------------------------
(***************************************************************************)
(* The offline queue of the Android application and its replay:            *)
(* ApplicationViewModel and ApplicationRepository try a mutation directly  *)
(* and queue it when the try fails; SyncRepository.syncQueueWithServer     *)
(* replays the queue.  A pass of the replay is run by the periodic         *)
(* WorkManager job, by one-time jobs under random unique names and by the  *)
(* foreground sync, at the same time if it happens so.                     *)
(*                                                                         *)
(* One officer, signed in (getMe answers), working on one application the  *)
(* server knows and on new ones.  A request may be lost (it never arrives), *)
(* its answer may be lost, and a request the phone has given up may still  *)
(* arrive.  The process may be killed; the SQLite tables survive.          *)
(***************************************************************************)
EXTENDS Naturals, Sequences

CONSTANTS
    Pass,          \* the replay passes that may run at once
    Doc,           \* documents captured on the phone
    Gesture,       \* the actions the officer takes in a run, a subset of Action
    MaxMutations   \* bound on the mutations the officer makes

Action == {"CREATE_APPLICATION", "SUBMIT_OCR_REVIEW", "SUBMIT_VISITATION", "EXECUTE_PLEDGE"}

ASSUME GestureAssumption == Gesture \subseteq Action
ASSUME BoundAssumption == MaxMutations \in Nat

\* The server accepts one of the queued actions, as long as it takes reports
\* (TakesReports): an OCR review asks for a stage the CHECK constraint refuses,
\* and no PATCH route takes a pledge.
Accepted == {"SUBMIT_VISITATION"}

\* The payload of a queued creation has no org_id and cannot be decoded.
Decodable == Action \ {"CREATE_APPLICATION"}

VARIABLES
    filed,      \* filed[m]: the action of mutation m, in the order of the officer's work
    acked,      \* the mutations the officer was told are done
    queue,      \* the rows of SyncQueue
    stamp,      \* the timestamp of the row queued last
    ui,         \* ui[m]: the direct try of m awaits its answer
    pass,       \* pass[p]: the replay pass p, or Asleep
    network,    \* <<sender, m>>: the requests under way
    delivered,  \* the mutations the server has applied
    drafts,     \* the applications created on the server
    report,     \* the server's visitation report: [mutation, status]
    signed,     \* the mutations whose report a manager has signed off
    inIntake,   \* the application has not been submitted to the branch manager
    rlsEnforced,\* the server's runtime role is subject to row-level security
    docs        \* docs[d]: [saved, synced on the phone, stored on the server]

phone == <<filed, acked, queue, stamp, ui, pass>>
policy == <<inIntake, rlsEnforced>>
server == <<delivered, drafts, report, signed, policy>>
vars == <<phone, network, server, docs>>

Mutation == 1..MaxMutations
Sender == Pass \cup {"ui"}

\* A mutation leaves at most itself and a creation in the queue, a request apart,
\* so that the timestamp of a row does for its id.
Stamp == 1..(2 * MaxMutations)
Item == [at : Nat, mutation : Mutation, action : Action, due : BOOLEAN]

\* Which writes of the officer the server takes: documents while the file is in
\* intake, reports too if a policy of the database says so.
TakesDocuments == inIntake
TakesReports == rlsEnforced => inIntake

Asleep == [phase |-> "asleep"]
Pushing == [phase : {"push"}, batch : SUBSET Item, answer : {"none", "waiting", "ok"}]
Uploading == [phase : {"upload"}, pending : SUBSET Doc, uploaded : SUBSET Doc]

NoReport == [mutation |-> 0, status |-> "none"]

Queued(m) == \E item \in queue : item.mutation = m /\ item.action = filed[m]

-----------------------------------------------------------------------------
(* The screens. *)

Enqueue(m, action) ==
    /\ stamp' = stamp + 1
    /\ queue' = queue \cup {[at |-> stamp', mutation |-> m, action |-> action, due |-> TRUE]}

\* repository.createApplication: the local row is written, a creation posted.
\* An answer of any status counts as success; an exception queues it.
PostCreation(m, posted, answered) ==
    /\ drafts' = IF posted THEN drafts + 1 ELSE drafts
    /\ IF answered THEN UNCHANGED <<queue, stamp>> ELSE Enqueue(m, "CREATE_APPLICATION")

\* The officer creates an application.
CreateApplication ==
    LET m == Len(filed) + 1 IN
    /\ m <= MaxMutations /\ "CREATE_APPLICATION" \in Gesture
    /\ filed' = Append(filed, "CREATE_APPLICATION")
    /\ \E posted, answered \in BOOLEAN :
         /\ PostCreation(m, posted, answered)
         /\ delivered' = IF posted THEN delivered \cup {m} ELSE delivered
    /\ acked' = acked \cup {m}
    /\ UNCHANGED <<ui, pass, network, report, signed, policy, docs>>

\* submitOcrReview, executePledge, submitVisitationReport: the changed local
\* row is written by createApplication, then the action is tried directly.
FileStageAction(action) ==
    LET m == Len(filed) + 1 IN
    /\ m <= MaxMutations /\ action \in Gesture \ {"CREATE_APPLICATION"}
    /\ filed' = Append(filed, action)
    /\ \E posted, answered \in BOOLEAN : PostCreation(m, posted, answered)
    /\ ui' = [k \in DOMAIN ui \cup {m} |-> IF k = m THEN "waiting" ELSE ui[k]]
    /\ network' = network \cup {<<"ui", m>>}
    /\ UNCHANGED <<acked, pass, delivered, report, signed, policy, docs>>

Forget(m) == ui' = [k \in DOMAIN ui \ {m} |-> ui[k]]

DirectTrySucceeded(m) ==
    /\ m \in DOMAIN ui /\ ui[m] = "ok"
    /\ Forget(m)
    /\ acked' = acked \cup {m}
    /\ UNCHANGED <<filed, queue, stamp, pass, network, server, docs>>

\* The try failed, for all the phone knows.
QueueStageAction(m) ==
    /\ m \in DOMAIN ui /\ ui[m] = "waiting"
    /\ Forget(m)
    /\ Enqueue(m, filed[m])
    /\ acked' = acked \cup {m}
    /\ UNCHANGED <<filed, pass, network, server, docs>>

SaveDocument(d) ==
    /\ ~docs[d].saved
    /\ docs' = [docs EXCEPT ![d].saved = TRUE]
    /\ UNCHANGED <<phone, network, server>>

-----------------------------------------------------------------------------
(* The replay. *)

\* selectQueuedItems: what is due now, to be replayed in the order of timestamp.
StartSync(p) ==
    /\ pass[p] = Asleep
    /\ pass' = [pass EXCEPT ![p] = [phase |-> "push", batch |-> {item \in queue : item.due},
                                    answer |-> "none"]]
    /\ UNCHANGED <<filed, acked, queue, stamp, ui, network, server, docs>>

\* The item a pass is at, if there is one left.
Batch(p) == IF pass[p].phase = "push" THEN pass[p].batch ELSE {}
Current(p) == {item \in Batch(p) : \A other \in Batch(p) : item.at <= other.at}

Send(p) == \E item \in Current(p) :
    /\ pass[p].answer = "none"
    /\ item.action \in Decodable
    /\ network' = network \cup {<<p, item.mutation>>}
    /\ pass' = [pass EXCEPT ![p].answer = "waiting"]
    /\ UNCHANGED <<filed, acked, queue, stamp, ui, server, docs>>

NextItem(p, item) ==
    pass' = [pass EXCEPT ![p] = [phase |-> "push", batch |-> @.batch \ {item}, answer |-> "none"]]
Delete(at) == queue' = {item \in queue : item.at # at}

DeleteQueueItem(p) == \E item \in Current(p) :
    /\ pass[p].answer = "ok"
    /\ Delete(item.at)
    /\ NextItem(p, item)
    /\ UNCHANGED <<filed, acked, stamp, ui, network, server, docs>>

Failed(p, item) ==
    \/ pass[p].answer = "waiting"
    \/ pass[p].answer = "none" /\ item.action \notin Decodable

SetDue(at, value) ==
    queue' = {IF item.at = at THEN [item EXCEPT !.due = value] ELSE item : item \in queue}

\* Mutant: an item the server has refused is given up.
RecordQueueFailureGivesUp(p) == \E item \in Current(p) :
    /\ Failed(p, item)
    /\ Delete(item.at)
    /\ NextItem(p, item)
    /\ UNCHANGED <<filed, acked, stamp, ui, network, server, docs>>

\* No answer, a refusal, an undecodable payload: the item waits for its
\* next_retry_at (30 s to an hour).
RecordQueueFailure(p) == \E item \in Current(p) :
    /\ Failed(p, item)
    /\ SetDue(item.at, FALSE)
    /\ NextItem(p, item)
    /\ UNCHANGED <<filed, acked, stamp, ui, network, server, docs>>

\* Mutant: an item is retried only if it is the first in the queue.
BackoffElapsesAtHead(at) ==
    /\ \E item \in queue : item.at = at /\ ~item.due
    /\ \A item \in queue : at <= item.at
    /\ SetDue(at, TRUE)
    /\ UNCHANGED <<filed, acked, stamp, ui, pass, network, server, docs>>

BackoffElapses(at) ==
    /\ \E item \in queue : item.at = at /\ ~item.due
    /\ SetDue(at, TRUE)
    /\ UNCHANGED <<filed, acked, stamp, ui, pass, network, server, docs>>

PendingDocs == {d \in Doc : docs[d].saved /\ ~docs[d].synced}

\* Mutant: documents wait for an empty queue.
StartUploadsAfterPush(p) ==
    /\ pass[p].phase = "push" /\ pass[p].batch = {}
    /\ pass' = [pass EXCEPT ![p] =
                  [phase |-> "upload", uploaded |-> {},
                   pending |-> IF queue = {} THEN PendingDocs ELSE {}]]
    /\ UNCHANGED <<filed, acked, queue, stamp, ui, network, server, docs>>

\* The pull is not modelled; the upload phase follows.
StartUploads(p) ==
    /\ pass[p].phase = "push" /\ pass[p].batch = {}
    /\ pass' = [pass EXCEPT ![p] = [phase |-> "upload", pending |-> PendingDocs,
                                    uploaded |-> {}]]
    /\ UNCHANGED <<filed, acked, queue, stamp, ui, network, server, docs>>

\* uploadDocument: stored or not, answered or not.  A document that was refused
\* or got no answer stays pending for the next pass.
Upload(p, d) ==
    /\ pass[p].phase = "upload" /\ d \in pass[p].pending
    /\ \E stored, answered \in BOOLEAN :
         /\ stored => TakesDocuments
         /\ docs' = [docs EXCEPT ![d].stored = @ \/ stored]
         /\ pass' = [pass EXCEPT ![p] =
                       [phase |-> "upload", pending |-> @.pending \ {d},
                        uploaded |-> @.uploaded \cup {e \in {d} : stored /\ answered}]]
    /\ UNCHANGED <<filed, acked, queue, stamp, ui, network, server>>

\* Mutant: whatever the upload answered.
MarkSyncedRegardless(p, d) ==
    /\ pass[p].phase = "upload" /\ d \in PendingDocs \ pass[p].pending
    /\ docs' = [docs EXCEPT ![d].synced = TRUE]
    /\ pass' = [pass EXCEPT ![p].uploaded = @ \ {d}]
    /\ UNCHANGED <<filed, acked, queue, stamp, ui, network, server>>

MarkSynced(p, d) ==
    /\ pass[p].phase = "upload" /\ d \in pass[p].uploaded
    /\ docs' = [docs EXCEPT ![d].synced = TRUE]
    /\ pass' = [pass EXCEPT ![p].uploaded = @ \ {d}]
    /\ UNCHANGED <<filed, acked, queue, stamp, ui, network, server>>

EndSync(p) ==
    /\ pass[p].phase = "upload" /\ pass[p].pending = {} /\ pass[p].uploaded = {}
    /\ pass' = [pass EXCEPT ![p] = Asleep]
    /\ UNCHANGED <<filed, acked, queue, stamp, ui, network, server, docs>>

\* The process is killed, or Android stops the job.
Killed ==
    /\ ui' = <<>>
    /\ pass' = [p \in Pass |-> Asleep]
    /\ UNCHANGED <<filed, acked, queue, stamp, network, server, docs>>

-----------------------------------------------------------------------------
(* The network and the server. *)

\* The answer reaches a sender that still waits for it.
Answer(sender, m) ==
    IF sender = "ui"
    THEN /\ m \in DOMAIN ui
         /\ ui' = [ui EXCEPT ![m] = "ok"]
         /\ UNCHANGED pass
    ELSE /\ \E item \in Current(sender) : item.mutation = m
         /\ pass[sender].answer = "waiting"
         /\ pass' = [pass EXCEPT ![sender].answer = "ok"]
         /\ UNCHANGED ui

\* upsert_report.sql: a report on file is overwritten and submitted again.
StoreReport(m) ==
    /\ report' = [mutation |-> m, status |-> "submitted"]
    /\ delivered' = delivered \cup {m}

Apply(sender, m) ==
    /\ <<sender, m>> \in network /\ filed[m] \in Accepted /\ TakesReports
    /\ StoreReport(m)
    /\ network' = network \ {<<sender, m>>}
    /\ \/ Answer(sender, m)
       \/ UNCHANGED <<ui, pass>>
    /\ UNCHANGED <<filed, acked, queue, stamp, drafts, signed, policy, docs>>

\* Mutant: manager_signoff.sql without its status test.
ManagerSignsOffAnyReport(decision) ==
    /\ rlsEnforced => ~inIntake
    /\ report' = [report EXCEPT !.status = decision]
    /\ signed' = signed \cup {report.mutation}
    /\ UNCHANGED <<phone, network, delivered, drafts, policy, docs>>

\* manager_signoff.sql; with row-level security the report is the manager's when
\* the file has left intake.
ManagerSignsOff(decision) ==
    /\ rlsEnforced => ~inIntake
    /\ report.status = "submitted"
    /\ report' = [report EXCEPT !.status = decision]
    /\ signed' = signed \cup {report.mutation}
    /\ UNCHANGED <<phone, network, delivered, drafts, policy, docs>>

\* The file is submitted, from this phone or in the browser, by the officer or
\* by an analyst; no decision puts it back in intake.
SubmitToBranchManager ==
    /\ inIntake /\ inIntake' = FALSE
    /\ UNCHANGED <<phone, network, delivered, drafts, report, signed, rlsEnforced, docs>>

-----------------------------------------------------------------------------
Init ==
    /\ filed = <<>> /\ acked = {} /\ queue = {} /\ stamp = 0
    /\ ui = <<>>
    /\ pass = [p \in Pass |-> Asleep]
    /\ network = {}
    /\ delivered = {} /\ drafts = 0
    /\ report = NoReport /\ signed = {}
    /\ inIntake = TRUE /\ rlsEnforced \in BOOLEAN
    /\ docs = [d \in Doc |-> [saved |-> FALSE, synced |-> FALSE, stored |-> FALSE]]

Officer ==
    \/ CreateApplication
    \/ \E action \in Action : FileStageAction(action)
    \/ \E m \in Mutation : DirectTrySucceeded(m) \/ QueueStageAction(m)
    \/ \E d \in Doc : SaveDocument(d)

Replay ==
    \/ \E p \in Pass :
         \/ StartSync(p) \/ Send(p) \/ DeleteQueueItem(p) \/ RecordQueueFailure(p)
         \/ StartUploads(p) \/ EndSync(p)
         \/ \E d \in Doc : Upload(p, d) \/ MarkSynced(p, d)
    \/ \E at \in Stamp : BackoffElapses(at)
    \/ Killed

Outside ==
    \/ \E sender \in Sender, m \in Mutation : Apply(sender, m)
    \/ \E decision \in {"concurred", "returned"} : ManagerSignsOff(decision)
    \/ SubmitToBranchManager

Next == Officer \/ Replay \/ Outside

Spec == Init /\ [][Next]_vars

\* The jobs run again and again (schedulePeriodic), and no step of a pass, no
\* request and no answer is lost or cut short for ever.
AnsweredTo(p, m) ==
    Current(p) # {} /\ pass[p].answer = "waiting" /\ Apply(p, m) /\ pass'[p].answer = "ok"
UploadAnswered(p, d) == Upload(p, d) /\ (TakesDocuments => d \in pass'[p].uploaded)

ReplayPersists ==
    /\ \A at \in Stamp : WF_vars(BackoffElapses(at))
    /\ \A p \in Pass :
         /\ SF_vars(StartSync(p)) /\ SF_vars(Send(p)) /\ SF_vars(DeleteQueueItem(p))
         /\ SF_vars(RecordQueueFailure(p))
         /\ SF_vars(StartUploads(p)) /\ SF_vars(EndSync(p))
         /\ \A m \in Mutation : SF_vars(AnsweredTo(p, m))
         /\ \A d \in Doc : SF_vars(UploadAnswered(p, d)) /\ SF_vars(MarkSynced(p, d))

FairSpec == Spec /\ ReplayPersists

-----------------------------------------------------------------------------
(* The stage actions, as the officer knows them.  (A creation is not among  *)
(* them: one that was refused is lost, see CreationsKept.)                  *)

StageActions == {m \in DOMAIN filed : filed[m] # "CREATE_APPLICATION"}

Box == INSTANCE Outbox WITH
    filed <- StageActions,
    told <- acked \cap StageActions,
    kept <- {m \in StageActions : Queued(m)},
    applied <- delivered \cap StageActions

-----------------------------------------------------------------------------
(* Properties. *)

\* The tables, the passes and the requests under way are well formed.
TypeOK ==
    /\ filed \in Seq(Action) /\ Len(filed) <= MaxMutations
    /\ acked \subseteq DOMAIN filed /\ delivered \subseteq DOMAIN filed
    /\ queue \subseteq Item /\ stamp \in Nat
    /\ DOMAIN ui \subseteq DOMAIN filed /\ \A m \in DOMAIN ui : ui[m] \in {"waiting", "ok"}
    /\ pass \in [Pass -> Pushing \cup Uploading \cup {Asleep}]
    /\ network \subseteq Sender \X DOMAIN filed
    /\ drafts \in Nat
    /\ report = NoReport
       \/ report \in [mutation : DOMAIN filed, status : {"submitted", "concurred", "returned"}]
    /\ signed \subseteq delivered
    /\ policy \in BOOLEAN \X BOOLEAN
    /\ docs \in [Doc -> [saved : BOOLEAN, synced : BOOLEAN, stored : BOOLEAN]]

\* A stage action the officer was told is done is on the server or in the
\* queue, whatever requests, answers and processes are lost (README.md:276).
StageActionsKept ==
    \A m \in acked :
        filed[m] # "CREATE_APPLICATION" => m \in delivered \/ Queued(m)

\* The queue is an outbox: a stage action enters it once, and leaves it only
\* when the server has applied it, although passes overlap, delete rows they
\* read long ago and are killed (syncQueueWithServer).
ImplementsOutbox == Box!Spec

\* A document marked as uploaded is stored on the server: it is never uploaded
\* again, so an early mark would lose it (AndroidSyncWorker.doWork, phase 3).
SyncedIsStored == \A d \in Doc : docs[d].synced => docs[d].stored

\* A visitation report in the queue is sent in the end, although passes fail
\* and are killed.  The exception is a file that was submitted without it where
\* row-level security is on: the report is refused from then on, and stays in
\* the queue for ever, the officer having been told that it is done.
ReportIsSynced ==
    \A m \in Mutation :
        (m \in DOMAIN filed /\ filed[m] = "SUBMIT_VISITATION" /\ Queued(m))
          ~> (~Queued(m) \/ ~TakesReports)

\* A captured document is uploaded in the end, unless the file is submitted
\* before, after which it is refused and stays on the phone.
DocumentIsSynced == \A d \in Doc : docs[d].saved ~> (docs[d].synced \/ ~TakesDocuments)

\* A creation the officer was told is done is on the server or in the queue.
CreationsKept ==
    \A m \in acked : filed[m] = "CREATE_APPLICATION" => m \in delivered \/ Queued(m)

\* "prevents double signoff" (manager_signoff.sql): one report is signed off
\* once.
NoDoubleSignoff ==
    [][\A decision \in {"concurred", "returned"} :
         ManagerSignsOff(decision) => report.mutation \notin signed]_vars

\* A stage action the officer was told is done and that is no longer in the
\* queue has been applied, and never enters the queue again.
ReleasedIsDone ==
    [][\A m \in StageActions \cap acked :
         ~Queued(m) => m \in delivered /\ ~Queued(m)']_vars

=============================================================================
