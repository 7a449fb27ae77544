--------------------------- MODULE DocumentUpload ---------------------------
(***************************************************************************)
(* Direct uploads of documents (backend/app/domains/documents/             *)
(* direct_upload.py) and the clean-up job of their leftovers               *)
(* (backend/migrations/cleanup_expired_document_uploads.py).               *)
(*                                                                         *)
(* A client asks for an intent, sends its file to Cloudinary and asks the  *)
(* server to finalize: the server reads the intent without a lock, asks    *)
(* Cloudinary about the file, and then claims the intent and creates the   *)
(* document in one transaction.  The clean-up locks the rows of abandoned  *)
(* intents and destroys their files one by one before it commits; what it  *)
(* destroyed does not come back when it fails.                             *)
(***************************************************************************)
EXTENDS Integers, FiniteSets

CONSTANTS
    MaxIntents,  \* bound on the upload authorizations asked for
    Worker,      \* server workers, each finalizing one upload at a time
    Cleaner,     \* runs of the clean-up job that may overlap
    Limit        \* --limit of the clean-up job (100 by default)

ASSUME IntentsAssumption == MaxIntents \in Nat
ASSUME LimitAssumption == Limit \in Nat

VARIABLES
    status,     \* status[i]: the committed status of intent i
    age,        \* age[i]: where i stands with respect to its expires_at
    asset,      \* asset[i]: what Cloudinary holds under the public_id of i
    documents,  \* documents[i]: rows of documents created for i, each with its OCR job
    request,    \* request[w]: the finalization worker w is serving
    cleanup,    \* cleanup[c]: the transaction of run c of the clean-up job
    answered,   \* intents whose document some finalization was answered with
    orphaned    \* pending intents whose file a clean-up destroyed before it failed

vars == <<status, age, asset, documents, request, cleanup, answered, orphaned>>

\* Intents in the order of their authorization, and so of their expires_at.
Intent == 1..MaxIntents

\* "live" until expires_at (5 minutes), "stale" 15 minutes after it.
Age == {"live", "expired", "stale"}

\* A file Cloudinary holds has the declared type and size, or has not.
Asset == {"none", "valid", "invalid", "destroyed"}

Idle == [step |-> "idle"]
Request == [step : {"read", "verified", "refused"}, intent : Intent]
AtRest == [locked |-> {}, cleaned |-> {}]

On(w, i, step) == request[w] = [step |-> step, intent |-> i]
Locked(i) == \E c \in Cleaner : i \in cleanup[c].locked

-----------------------------------------------------------------------------
(* The client. *)

\* DirectDocumentUploadService.authorize
Authorize(i) ==
    /\ status[i] = "none"
    /\ \A j \in 1..(i - 1) : status[j] # "none"
    /\ status' = [status EXCEPT ![i] = "pending"]
    /\ UNCHANGED <<age, asset, documents, request, cleanup, answered, orphaned>>

\* The client posts its file once; nothing ties Cloudinary to expires_at.
Upload(i) ==
    /\ status[i] # "none" /\ asset[i] = "none"
    /\ \E file \in {"valid", "invalid"} : asset' = [asset EXCEPT ![i] = file]
    /\ UNCHANGED <<status, age, documents, request, cleanup, answered, orphaned>>

GetsOlder(i, to) ==
    /\ \A j \in 1..(i - 1) : age[j] = to \/ age[j] = "stale"
    /\ age' = [age EXCEPT ![i] = to]
    /\ UNCHANGED <<status, asset, documents, request, cleanup, answered, orphaned>>

Expires(i) == status[i] # "none" /\ age[i] = "live" /\ GetsOlder(i, "expired")
GoesStale(i) == age[i] = "expired" /\ GetsOlder(i, "stale")

-----------------------------------------------------------------------------
(* DirectDocumentUploadService.finalize *)

\* The client has Cloudinary's answer to its upload.  A finalized intent is
\* answered with its document again; one past expires_at is refused, and the
\* refusal rolls the UPDATE to 'expired' back.
FinalizeReplays(i) ==
    /\ status[i] = "finalized"
    /\ answered' = answered \cup {i}
    /\ UNCHANGED <<status, age, asset, documents, request, cleanup, orphaned>>

ReadIntent(w, i) ==
    /\ request[w] = Idle
    /\ asset[i] # "none"
    /\ status[i] # "finalized" /\ age[i] = "live"
    /\ request' = [request EXCEPT ![w] = [step |-> "read", intent |-> i]]
    /\ UNCHANGED <<status, age, asset, documents, cleanup, answered, orphaned>>

\* cloudinary.api.resource; without a file the request fails (Fail).
VerifyAsset(w, i) ==
    /\ On(w, i, "read")
    /\ asset[i] \in {"valid", "invalid"}
    /\ request' = [request EXCEPT ![w].step =
                     IF asset[i] = "valid" THEN "verified" ELSE "refused"]
    /\ UNCHANGED <<status, age, asset, documents, cleanup, answered, orphaned>>

\* cloudinary.uploader.destroy, then the error 400.
DestroyRefused(w, i) ==
    /\ On(w, i, "refused")
    /\ asset' = [asset EXCEPT ![i] = "destroyed"]
    /\ request' = [request EXCEPT ![w] = Idle]
    /\ UNCHANGED <<status, age, documents, cleanup, answered, orphaned>>

Finalized(i) ==
    /\ status' = [status EXCEPT ![i] = "finalized"]
    /\ documents' = [documents EXCEPT ![i] = @ + 1]
    /\ answered' = answered \cup {i}

\* Mutant: the claim does not look at the status.
ClaimAnyStatus(w, i) ==
    /\ On(w, i, "verified") /\ ~Locked(i)
    /\ Finalized(i)
    /\ request' = [request EXCEPT ![w] = Idle]
    /\ UNCHANGED <<age, asset, cleanup, orphaned>>

\* UPDATE ... WHERE status='pending', which waits for a lock on the row, then
\* the document, its OCR job and the commit.
Claim(w, i) ==
    /\ On(w, i, "verified") /\ ~Locked(i)
    /\ status[i] = "pending"
    /\ Finalized(i)
    /\ request' = [request EXCEPT ![w] = Idle]
    /\ UNCHANGED <<age, asset, cleanup, orphaned>>

\* Mutant: the loser of the claim reports success without its document.
LoseClaimRegardless(w, i) ==
    /\ On(w, i, "verified") /\ ~Locked(i)
    /\ status[i] # "pending"
    /\ answered' = answered \cup {i}
    /\ request' = [request EXCEPT ![w] = Idle]
    /\ UNCHANGED <<status, age, asset, documents, cleanup, orphaned>>

\* Another finalization was first: its document is the answer.  When it was
\* the clean-up, document_id is null and the request fails (Fail).
LoseClaim(w, i) ==
    /\ On(w, i, "verified") /\ ~Locked(i)
    /\ status[i] = "finalized"
    /\ answered' = answered \cup {i}
    /\ request' = [request EXCEPT ![w] = Idle]
    /\ UNCHANGED <<status, age, asset, documents, cleanup, orphaned>>

\* An error answer, a lost connection, a crash: nothing is committed.
Fail(w) ==
    /\ request[w] # Idle
    /\ request' = [request EXCEPT ![w] = Idle]
    /\ UNCHANGED <<status, age, asset, documents, cleanup, answered, orphaned>>

-----------------------------------------------------------------------------
(* The clean-up job. *)

Abandoned(i) ==
    /\ status[i] \in {"pending", "expired"} /\ documents[i] = 0
    /\ age[i] = "stale"

\* ORDER BY expires_at LIMIT
Oldest(candidates) ==
    {i \in candidates : Cardinality({j \in candidates : j < i}) < Limit}

Collect(c, batch) ==
    /\ cleanup[c] = AtRest /\ batch # {}
    /\ cleanup' = [cleanup EXCEPT ![c].locked = batch]
    /\ UNCHANGED <<status, age, asset, documents, request, answered, orphaned>>

\* Mutant: expired intents are not looked at again.
CleanStartPendingOnly(c) ==
    Collect(c, Oldest({i \in Intent : Abandoned(i) /\ status[i] = "pending" /\ ~Locked(i)}))

\* FOR UPDATE SKIP LOCKED
CleanStart(c) == Collect(c, Oldest({i \in Intent : Abandoned(i) /\ ~Locked(i)}))

\* One file is destroyed, if there is one, at once and for good.
CleanDestroy(c, i) ==
    /\ i \in cleanup[c].locked \ cleanup[c].cleaned
    /\ \A j \in cleanup[c].locked : j < i => j \in cleanup[c].cleaned
    /\ asset' = [asset EXCEPT ![i] = IF @ = "none" THEN @ ELSE "destroyed"]
    /\ cleanup' = [cleanup EXCEPT ![c].cleaned = @ \cup {i}]
    /\ UNCHANGED <<status, age, documents, request, answered, orphaned>>

\* Mutant: the locks are given up without the new status.
CleanCommitStatusless(c) ==
    /\ cleanup[c] # AtRest /\ cleanup[c].cleaned = cleanup[c].locked
    /\ cleanup' = [cleanup EXCEPT ![c] = AtRest]
    /\ UNCHANGED <<status, age, asset, documents, request, answered, orphaned>>

\* Mutant: a status the table's CHECK constraint does not have.
CleanCommitRemoved(c) ==
    /\ cleanup[c] # AtRest /\ cleanup[c].cleaned = cleanup[c].locked
    /\ status' = [i \in Intent |->
                    IF i \in cleanup[c].locked THEN "removed" ELSE status[i]]
    /\ cleanup' = [cleanup EXCEPT ![c] = AtRest]
    /\ UNCHANGED <<age, asset, documents, request, answered, orphaned>>

CleanCommit(c) ==
    /\ cleanup[c] # AtRest /\ cleanup[c].cleaned = cleanup[c].locked
    /\ status' = [i \in Intent |->
                    IF i \in cleanup[c].locked THEN "expired" ELSE status[i]]
    /\ cleanup' = [cleanup EXCEPT ![c] = AtRest]
    /\ UNCHANGED <<age, asset, documents, request, answered, orphaned>>

\* An exception or a crash: one rollback for the whole batch.
CleanAbort(c) ==
    /\ cleanup[c] # AtRest
    /\ orphaned' = orphaned \cup
         {i \in cleanup[c].cleaned : status[i] = "pending" /\ asset[i] = "destroyed"}
    /\ cleanup' = [cleanup EXCEPT ![c] = AtRest]
    /\ UNCHANGED <<status, age, asset, documents, request, answered>>

-----------------------------------------------------------------------------
Init ==
    /\ status = [i \in Intent |-> "none"]
    /\ age = [i \in Intent |-> "live"]
    /\ asset = [i \in Intent |-> "none"]
    /\ documents = [i \in Intent |-> 0]
    /\ request = [w \in Worker |-> Idle]
    /\ cleanup = [c \in Cleaner |-> AtRest]
    /\ answered = {}
    /\ orphaned = {}

Client(i) ==
    \/ Authorize(i)
    \/ Upload(i)
    \/ Expires(i)
    \/ GoesStale(i)

Finalize(w, i) ==
    \/ ReadIntent(w, i)
    \/ VerifyAsset(w, i)
    \/ DestroyRefused(w, i)
    \/ Claim(w, i)
    \/ LoseClaim(w, i)

CleanUp(c) ==
    \/ CleanStart(c)
    \/ \E i \in Intent : CleanDestroy(c, i)
    \/ CleanCommit(c)
    \/ CleanAbort(c)

Next ==
    \/ \E i \in Intent : Client(i) \/ FinalizeReplays(i)
    \/ \E w \in Worker, i \in Intent : Finalize(w, i)
    \/ \E w \in Worker : Fail(w)
    \/ \E c \in Cleaner : CleanUp(c)

Spec == Init /\ [][Next]_vars

\* The clean-up job is started again and again, and does not fail for ever at
\* the same file.
CleanUpRunsAgain ==
    \A c \in Cleaner :
        /\ WF_vars(CleanStart(c))
        /\ \A i \in Intent : SF_vars(CleanDestroy(c, i))
        /\ WF_vars(CleanCommit(c))

FairSpec == Spec /\ CleanUpRunsAgain

-----------------------------------------------------------------------------
(* Properties. *)

\* The table, the requests and the runs of the job are well formed.
TypeOK ==
    /\ status \in [Intent -> {"none", "pending", "finalized", "expired"}]
    /\ age \in [Intent -> Age]
    /\ asset \in [Intent -> Asset]
    /\ documents \in [Intent -> Nat]
    /\ request \in [Worker -> Request \cup {Idle}]
    /\ cleanup \in [Cleaner -> [locked : SUBSET Intent, cleaned : SUBSET Intent]]
    /\ answered \subseteq Intent
    /\ orphaned \subseteq Intent

\* An authorization is good for one document, however many finalizations of
\* it race each other and the clean-up, and it is finalized if and only if it
\* has its document (the claim in finalize).
OneDocumentPerIntent ==
    \A i \in Intent : documents[i] = IF status[i] = "finalized" THEN 1 ELSE 0

\* The file of a document is the one that was verified and is still there,
\* although it was verified long before the claim and is destroyed by others.
\* The exception is a clean-up that destroyed the file and was rolled back.
DocumentHasAsset ==
    \A i \in Intent : documents[i] > 0 => asset[i] = "valid" \/ i \in orphaned

\* A client that was told its upload is complete has a document.
AnsweredIsStored == \A i \in answered : documents[i] > 0

\* The clean-up looks at the oldest abandoned intents only, and those it has
\* seen stay among them.
Reached(i) == Abandoned(i) /\ Cardinality({j \in 1..(i - 1) : Abandoned(j)}) < Limit

\* The file of an abandoned intent is destroyed, unless its document is created
\* in the end, although runs of the clean-up overlap and are rolled back, and
\* uploads come later than their intent: as long as fewer than Limit abandoned
\* intents are older.  ("remove any unfinalized Cloudinary asset" is said without
\* that condition, cleanup_expired_document_uploads.py:1.)
OldestAreRemoved ==
    \A i \in Intent :
        (Reached(i) /\ asset[i] # "none") ~> (asset[i] = "destroyed" \/ status[i] = "finalized")
=============================================================================
