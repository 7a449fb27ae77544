------------------------- MODULE OfflineSync_proofs -------------------------
(***************************************************************************)
(* The safety properties of OfflineSync for any number of mutations,       *)
(* passes and documents.                                                   *)
(*                                                                         *)
(* A row may leave the queue only when its mutation has arrived.  A pass   *)
(* works on rows it read earlier, so the argument is about what both hold: *)
(* StampsIdentify says that a timestamp names one mutation wherever it is  *)
(* met, and AnswersAreTrue that whoever was answered has been served.      *)
(***************************************************************************)
EXTENDS OfflineSync, TLAPS

\* The rows in the queue or in some pass's hands.
Known == queue \cup UNION {Batch(p) : p \in Pass}

StampsIdentify ==
    /\ \A item \in Known : item.at <= stamp /\ item.mutation \in DOMAIN filed
    /\ \A i, j \in Known : i.at = j.at => i.mutation = j.mutation

AnswersAreTrue ==
    /\ \A m \in DOMAIN ui : ui[m] = "ok" => m \in delivered
    /\ \A p \in Pass : \A item \in Current(p) : pass[p].answer = "ok" => item.mutation \in delivered
    /\ report.status # "none" => report.mutation \in delivered

UploadsAreStored ==
    \A p \in Pass : pass[p].phase = "upload" => \A d \in pass[p].uploaded : docs[d].stored

IInv ==
    /\ TypeOK
    /\ StageActionsKept
    /\ SyncedIsStored
    /\ StampsIdentify
    /\ AnswersAreTrue
    /\ UploadsAreStored

-----------------------------------------------------------------------------
(* What a pass may hold. *)

\* The phases of a pass, told apart.
LEMMA PassPhases ==
    ASSUME TypeOK, NEW p \in Pass
    PROVE  /\ Batch(p) \subseteq Item
           /\ Current(p) \subseteq Batch(p)
           /\ pass[p].phase = "push" =>
                /\ pass[p] \in Pushing /\ Batch(p) = pass[p].batch
                /\ pass[p] = [phase |-> "push", batch |-> pass[p].batch, answer |-> pass[p].answer]
           /\ pass[p].phase # "push" => Batch(p) = {} /\ Current(p) = {}
           /\ pass[p].phase = "upload" =>
                /\ pass[p] \in Uploading
                /\ pass[p] = [phase |-> "upload", pending |-> pass[p].pending,
                              uploaded |-> pass[p].uploaded]
<1>1. pass[p] \in Pushing \cup Uploading \cup {Asleep}
  BY DEF TypeOK
<1>2. CASE pass[p] \in Pushing
  BY <1>2 DEF Pushing, Batch, Current
<1>3. CASE pass[p] \in Uploading
  BY <1>3 DEF Uploading, Batch, Current
<1>4. CASE pass[p] = Asleep
  BY <1>4 DEF Asleep, Batch, Current
<1> QED
  BY <1>1, <1>2, <1>3, <1>4

\* An item a pass is at is pushed by that pass.
LEMMA CurrentIsPushed ==
    ASSUME TypeOK, NEW p \in Pass, NEW item \in Current(p)
    PROVE  /\ item \in Batch(p) /\ item \in Item /\ item \in Known
           /\ pass[p].phase = "push" /\ pass[p] \in Pushing
           /\ pass[p] = [phase |-> "push", batch |-> pass[p].batch, answer |-> pass[p].answer]
           /\ Batch(p) = pass[p].batch
BY PassPhases DEF Known

\* Items that are both first have the same timestamp.
LEMMA CurrentIsOne ==
    ASSUME TypeOK, StampsIdentify, NEW p \in Pass, NEW i \in Current(p), NEW j \in Current(p)
    PROVE  i.mutation = j.mutation
<1>1. i \in Item /\ j \in Item /\ i \in Known /\ j \in Known /\ i \in Batch(p) /\ j \in Batch(p)
  BY CurrentIsPushed
<1>2. i.at <= j.at /\ j.at <= i.at /\ i.at \in Nat /\ j.at \in Nat
  BY <1>1 DEF Current, Item
<1>3. i.at = j.at
  BY <1>2
<1> QED
  BY <1>1, <1>3 DEF StampsIdentify

-----------------------------------------------------------------------------
(* What the steps do to the tables. *)

\* Rows that are known, or differ from known ones in what is due only, are
\* still told apart by their timestamps.
LEMMA KnownKept ==
    ASSUME StampsIdentify, UNCHANGED <<stamp, filed>>,
           \A i \in Known' : \E j \in Known : i.at = j.at /\ i.mutation = j.mutation
    PROVE  StampsIdentify'
<1>1. \A i \in Known' : i.at <= stamp /\ i.mutation \in DOMAIN filed
  BY DEF StampsIdentify
<1>2. ASSUME NEW i \in Known', NEW j \in Known', i.at = j.at
      PROVE  i.mutation = j.mutation
  <2>1. PICK k \in Known : i.at = k.at /\ i.mutation = k.mutation
    OBVIOUS
  <2>2. PICK l \in Known : j.at = l.at /\ j.mutation = l.mutation
    OBVIOUS
  <2> QED
    BY <1>2, <2>1, <2>2 DEF StampsIdentify
<1> QED
  BY <1>1, <1>2 DEF StampsIdentify

\* A new row has a timestamp of its own.
LEMMA EnqueueKeeps ==
    ASSUME TypeOK, StampsIdentify, NEW m \in Mutation, NEW action \in Action,
           Enqueue(m, action), m \in DOMAIN filed', DOMAIN filed \subseteq DOMAIN filed',
           UNCHANGED pass
    PROVE  /\ queue' \subseteq Item /\ stamp' \in Nat
           /\ StampsIdentify'
           /\ queue \subseteq queue'
           /\ \E item \in queue' : item.mutation = m /\ item.action = action
<1> DEFINE new == [at |-> stamp', mutation |-> m, action |-> action, due |-> TRUE]
<1>1. stamp' = stamp + 1 /\ queue' = queue \cup {new} /\ stamp \in Nat
  BY DEF Enqueue, TypeOK
<1>2. new \in Item /\ new.at = stamp + 1 /\ new.mutation = m /\ new.action = action
  BY <1>1 DEF Item
<1> HIDE DEF new
<1>3. Known' = Known \cup {new}
  BY <1>1 DEF Known, Batch
<1>4. Known \subseteq Item
  BY PassPhases DEF Known, TypeOK
<1>5. \A i \in Known : i.at <= stamp /\ i.at \in Nat
  BY <1>4 DEF StampsIdentify, Item
<1>6. \A i \in Known' : i.at <= stamp' /\ i.mutation \in DOMAIN filed'
  BY <1>1, <1>2, <1>3, <1>5 DEF StampsIdentify
<1>7. \A i, j \in Known' : i.at = j.at => i.mutation = j.mutation
  BY <1>1, <1>2, <1>3, <1>5 DEF StampsIdentify
<1> QED
  BY <1>1, <1>2, <1>6, <1>7 DEF TypeOK, StampsIdentify

\* The phone's own creation is queued or not, and takes nothing out of the queue.
LEMMA PostKeeps ==
    ASSUME TypeOK, StampsIdentify, NEW m \in Mutation,
           NEW posted \in BOOLEAN, NEW answered \in BOOLEAN,
           PostCreation(m, posted, answered),
           m \in DOMAIN filed', DOMAIN filed \subseteq DOMAIN filed', UNCHANGED pass
    PROVE  /\ queue' \subseteq Item /\ stamp' \in Nat /\ drafts' \in Nat
           /\ StampsIdentify'
           /\ queue \subseteq queue'
<1>1. drafts' \in Nat
  BY DEF PostCreation, TypeOK
<1>2. CASE answered
  <2>1. UNCHANGED <<queue, stamp>>
    BY <1>2 DEF PostCreation
  <2>2. Known' = Known
    BY <2>1 DEF Known, Batch
  <2> QED
    BY <1>1, <2>1, <2>2 DEF TypeOK, StampsIdentify
<1>3. CASE ~answered
  <2>1. Enqueue(m, "CREATE_APPLICATION") /\ "CREATE_APPLICATION" \in Action
    BY <1>3 DEF PostCreation, Action
  <2> QED
    BY <1>1, <2>1, EnqueueKeeps
<1> QED
  BY <1>2, <1>3

\* The officer's work is filed in order.
LEMMA FiledGrows ==
    ASSUME TypeOK, NEW action \in Action, filed' = Append(filed, action),
           Len(filed) + 1 <= MaxMutations
    PROVE  /\ filed' \in Seq(Action) /\ Len(filed') <= MaxMutations
           /\ Len(filed) + 1 \in Mutation /\ Len(filed) + 1 \in DOMAIN filed'
           /\ Len(filed) + 1 \notin DOMAIN filed
           /\ DOMAIN filed \subseteq DOMAIN filed'
           /\ filed'[Len(filed) + 1] = action
           /\ \A k \in DOMAIN filed : filed'[k] = filed[k]
<1>1. filed \in Seq(Action) /\ Len(filed) \in Nat /\ MaxMutations \in Nat
  BY BoundAssumption DEF TypeOK
<1> QED
  BY <1>1 DEF Mutation

-----------------------------------------------------------------------------
(* The screens. *)

LEMMA CreateApplicationKeeps ==
    ASSUME IInv, CreateApplication
    PROVE  IInv'
<1> DEFINE n == Len(filed) + 1
<1> USE DEF IInv
<1>1. /\ filed' = Append(filed, "CREATE_APPLICATION") /\ n <= MaxMutations
      /\ acked' = acked \cup {n}
      /\ UNCHANGED <<ui, pass, network, report, signed, policy, docs>>
      /\ "CREATE_APPLICATION" \in Action
  BY DEF CreateApplication, Action
<1>2. PICK posted \in BOOLEAN, answered \in BOOLEAN :
         /\ PostCreation(n, posted, answered)
         /\ delivered' = IF posted THEN delivered \cup {n} ELSE delivered
  BY DEF CreateApplication
<1>3. /\ filed' \in Seq(Action) /\ Len(filed') <= MaxMutations
      /\ n \in Mutation /\ n \in DOMAIN filed' /\ n \notin DOMAIN filed
      /\ DOMAIN filed \subseteq DOMAIN filed'
      /\ filed'[n] = "CREATE_APPLICATION"
      /\ \A k \in DOMAIN filed : filed'[k] = filed[k]
  BY <1>1, FiledGrows
<1> HIDE DEF n
<1>4. /\ queue' \subseteq Item /\ stamp' \in Nat /\ drafts' \in Nat
      /\ StampsIdentify' /\ queue \subseteq queue'
  BY <1>1, <1>2, <1>3, PostKeeps
<1>5. delivered \subseteq delivered' /\ delivered' \subseteq DOMAIN filed'
  BY <1>2, <1>3 DEF TypeOK
<1>6. TypeOK'
  BY <1>1, <1>3, <1>4, <1>5 DEF TypeOK
<1>7. StageActionsKept'
  BY <1>1, <1>3, <1>4, <1>5 DEF StageActionsKept, Queued, TypeOK
<1>8. AnswersAreTrue'
  BY <1>1, <1>5 DEF AnswersAreTrue, Current, Batch
<1>9. SyncedIsStored' /\ UploadsAreStored'
  BY <1>1 DEF SyncedIsStored, UploadsAreStored
<1> QED
  BY <1>4, <1>6, <1>7, <1>8, <1>9

LEMMA FileStageActionKeeps ==
    ASSUME IInv, NEW action \in Action, FileStageAction(action)
    PROVE  IInv'
<1> DEFINE n == Len(filed) + 1
<1> USE DEF IInv
<1>1. /\ filed' = Append(filed, action) /\ n <= MaxMutations
      /\ ui' = [k \in DOMAIN ui \cup {n} |-> IF k = n THEN "waiting" ELSE ui[k]]
      /\ network' = network \cup {<<"ui", n>>}
      /\ UNCHANGED <<acked, pass, delivered, report, signed, policy, docs>>
  BY DEF FileStageAction
<1>2. PICK posted \in BOOLEAN, answered \in BOOLEAN : PostCreation(n, posted, answered)
  BY DEF FileStageAction
<1>3. /\ filed' \in Seq(Action) /\ Len(filed') <= MaxMutations
      /\ n \in Mutation /\ n \in DOMAIN filed' /\ n \notin DOMAIN filed
      /\ DOMAIN filed \subseteq DOMAIN filed'
      /\ \A k \in DOMAIN filed : filed'[k] = filed[k]
  BY <1>1, FiledGrows
<1> HIDE DEF n
<1>4. /\ queue' \subseteq Item /\ stamp' \in Nat /\ drafts' \in Nat
      /\ StampsIdentify' /\ queue \subseteq queue'
  BY <1>1, <1>2, <1>3, PostKeeps
<1>5. DOMAIN ui' \subseteq DOMAIN filed' /\ \A m \in DOMAIN ui' : ui'[m] \in {"waiting", "ok"}
  BY <1>1, <1>3 DEF TypeOK
<1>6. network' \subseteq Sender \X DOMAIN filed'
  BY <1>1, <1>3 DEF TypeOK, Sender
<1>7. TypeOK'
  BY <1>1, <1>3, <1>4, <1>5, <1>6 DEF TypeOK
<1>8. StageActionsKept'
  BY <1>1, <1>3, <1>4 DEF StageActionsKept, Queued, TypeOK
<1>9. AnswersAreTrue'
  <2>1. \A m \in DOMAIN ui' : ui'[m] = "ok" => m \in delivered'
    BY <1>1 DEF AnswersAreTrue
  <2> QED
    BY <1>1, <2>1 DEF AnswersAreTrue, Current, Batch
<1>10. SyncedIsStored' /\ UploadsAreStored'
  BY <1>1 DEF SyncedIsStored, UploadsAreStored
<1> QED
  BY <1>4, <1>7, <1>8, <1>9, <1>10

\* A direct try that ends was answered, or leaves its mutation in the queue.
LEMMA TryEndsKeeps ==
    ASSUME IInv, NEW m \in Mutation, DirectTrySucceeded(m) \/ QueueStageAction(m)
    PROVE  IInv'
<1> USE DEF IInv
<1>1. /\ ui' = [k \in DOMAIN ui \ {m} |-> ui[k]] /\ m \in DOMAIN ui /\ m \in DOMAIN filed
      /\ acked' = acked \cup {m}
      /\ UNCHANGED <<filed, pass, network, server, docs>>
  BY DEF DirectTrySucceeded, QueueStageAction, Forget, TypeOK
<1>2. /\ queue' \subseteq Item /\ stamp' \in Nat /\ StampsIdentify' /\ queue \subseteq queue'
      /\ m \in delivered \/ \E item \in queue' : item.mutation = m /\ item.action = filed[m]
  <2>1. CASE DirectTrySucceeded(m)
    <3>1. UNCHANGED <<queue, stamp>> /\ m \in delivered
      BY <2>1 DEF DirectTrySucceeded, AnswersAreTrue
    <3>2. Known' = Known
      BY <1>1, <3>1 DEF Known, Batch
    <3> QED
      BY <1>1, <3>1, <3>2 DEF TypeOK, StampsIdentify
  <2>2. CASE QueueStageAction(m)
    <3>1. Enqueue(m, filed[m]) /\ filed[m] \in Action
      BY <1>1, <2>2 DEF QueueStageAction, TypeOK
    <3> QED
      BY <1>1, <3>1, EnqueueKeeps
  <2> QED
    BY <2>1, <2>2
<1>3. TypeOK'
  BY <1>1, <1>2 DEF TypeOK, server
<1>4. StageActionsKept'
  BY <1>1, <1>2 DEF StageActionsKept, Queued, server
<1>5. AnswersAreTrue'
  BY <1>1 DEF AnswersAreTrue, Current, Batch, server
<1>6. SyncedIsStored' /\ UploadsAreStored'
  BY <1>1 DEF SyncedIsStored, UploadsAreStored
<1> QED
  BY <1>2, <1>3, <1>4, <1>5, <1>6

\* What no step of the documents touches.
LEMMA OnlyDocsKeep ==
    ASSUME IInv, UNCHANGED <<filed, acked, queue, stamp, ui, network, server>>,
           \A p \in Pass : Batch(p)' = Batch(p) /\ pass'[p].answer = pass[p].answer
    PROVE  StageActionsKept' /\ StampsIdentify' /\ AnswersAreTrue'
<1> USE DEF IInv, server
<1>1. Known' = Known
  BY DEF Known
<1>2. StampsIdentify'
  BY <1>1 DEF StampsIdentify
<1>3. StageActionsKept'
  BY DEF StageActionsKept, Queued
<1>4. \A p \in Pass : Current(p)' = Current(p)
  BY DEF Current
<1> QED
  BY <1>2, <1>3, <1>4 DEF AnswersAreTrue

LEMMA SaveDocumentKeeps ==
    ASSUME IInv, NEW d \in Doc, SaveDocument(d)
    PROVE  IInv'
<1>1. /\ docs' = [docs EXCEPT ![d].saved = TRUE]
      /\ UNCHANGED <<filed, acked, queue, stamp, ui, pass, network, server>>
  BY DEF SaveDocument, phone
<1>0. docs \in [Doc -> [saved : BOOLEAN, synced : BOOLEAN, stored : BOOLEAN]]
  BY DEF IInv, TypeOK
<1>2. docs' \in [Doc -> [saved : BOOLEAN, synced : BOOLEAN, stored : BOOLEAN]]
  BY <1>0, <1>1
<1>3. \A e \in Doc : docs'[e].synced = docs[e].synced /\ docs'[e].stored = docs[e].stored
  BY <1>0, <1>1
<1>4. TypeOK'
  BY <1>1, <1>2 DEF IInv, TypeOK, server
<1>5. StageActionsKept' /\ StampsIdentify' /\ AnswersAreTrue'
  BY <1>1, OnlyDocsKeep DEF Batch
<1>6. SyncedIsStored'
  BY <1>3 DEF IInv, SyncedIsStored
<1>7. UploadsAreStored'
  <2> SUFFICES ASSUME NEW p \in Pass, pass'[p].phase = "upload", NEW e \in pass'[p].uploaded
               PROVE  docs'[e].stored
    BY DEF UploadsAreStored
  <2>1. e \in Doc
    BY <1>1, PassPhases DEF IInv, Uploading
  <2> QED
    BY <1>1, <1>3, <2>1 DEF IInv, UploadsAreStored
<1> QED
  BY <1>4, <1>5, <1>6, <1>7 DEF IInv

-----------------------------------------------------------------------------
(* The replay. *)

\* A pass that takes a step without being answered: it holds known rows only,
\* and the rows of the queue keep their names.
LEMMA PassMoves ==
    ASSUME IInv, NEW p \in Pass, NEW next \in Pushing \cup Uploading \cup {Asleep},
           pass' = [pass EXCEPT ![p] = next],
           UNCHANGED <<filed, acked, stamp, ui, server>>,
           next.phase = "push" => next.batch \subseteq Known /\ next.answer # "ok",
           \A i \in queue' : \E j \in queue : i.at = j.at /\ i.mutation = j.mutation
    PROVE  /\ pass' \in [Pass -> Pushing \cup Uploading \cup {Asleep}]
           /\ StampsIdentify' /\ AnswersAreTrue'
<1> USE DEF IInv
<1>1. pass \in [Pass -> Pushing \cup Uploading \cup {Asleep}]
  BY DEF TypeOK
<1>2. pass'[p] = next /\ \A q \in Pass \ {p} : pass'[q] = pass[q]
  BY <1>1
<1>3. /\ Batch(p)' \subseteq Known
      /\ \A q \in Pass \ {p} : Batch(q)' = Batch(q)
  BY <1>2 DEF Batch
<1>4. \A i \in Known' : \E j \in Known : i.at = j.at /\ i.mutation = j.mutation
  <2> TAKE i \in Known'
  <2>1. CASE i \in queue'
    BY <2>1 DEF Known
  <2>2. CASE i \in Known
    BY <2>2
  <2>3. i \in queue' \/ i \in Known
    BY <1>3 DEF Known
  <2> QED
    BY <2>1, <2>2, <2>3
<1>5. StampsIdentify'
  BY <1>4, KnownKept
<1>6. AnswersAreTrue'
  <2>1. ASSUME NEW q \in Pass, NEW item \in Current(q)', pass'[q].answer = "ok"
        PROVE  item.mutation \in delivered
    <3>1. CASE q = p
      <4>1. next.phase = "push"
        BY <1>2, <2>1, <3>1 DEF Current, Batch
      <4> QED
        BY <1>2, <2>1, <3>1, <4>1
    <3>2. CASE q # p
      BY <1>2, <1>3, <2>1, <3>2 DEF Current, AnswersAreTrue
    <3> QED
      BY <3>1, <3>2
  <2> QED
    BY <2>1 DEF AnswersAreTrue, server
<1> QED
  BY <1>1, <1>5, <1>6

\* The stage actions the officer was told are done are kept if the queue loses
\* nothing but rows of mutations that have arrived.
LEMMA QueueKeepsActions ==
    ASSUME IInv, UNCHANGED <<filed, acked, server>>,
           \A i \in queue : i.mutation \in delivered \/
               \E j \in queue' : j.mutation = i.mutation /\ j.action = i.action
    PROVE  StageActionsKept'
BY DEF IInv, StageActionsKept, Queued, server

LEMMA StartSyncKeeps ==
    ASSUME IInv, NEW p \in Pass, StartSync(p)
    PROVE  IInv'
<1> DEFINE next == [phase |-> "push", batch |-> {item \in queue : item.due}, answer |-> "none"]
<1> USE DEF IInv
<1>1. /\ pass' = [pass EXCEPT ![p] = next]
      /\ UNCHANGED <<filed, acked, queue, stamp, ui, network, server, docs>>
  BY DEF StartSync
<1>2. /\ next \in Pushing /\ next.phase = "push" /\ next.batch \subseteq Known
      /\ next.answer # "ok"
  BY DEF TypeOK, Pushing, Known
<1> HIDE DEF next
<1>3. /\ pass' \in [Pass -> Pushing \cup Uploading \cup {Asleep}]
      /\ StampsIdentify' /\ AnswersAreTrue'
  BY <1>1, <1>2, PassMoves
<1>4. TypeOK' /\ StageActionsKept' /\ SyncedIsStored'
  BY <1>1, <1>3 DEF TypeOK, StageActionsKept, Queued, SyncedIsStored, server
<1>5. UploadsAreStored'
  BY <1>1, <1>2 DEF TypeOK, UploadsAreStored
<1> QED
  BY <1>3, <1>4, <1>5

LEMMA SendKeeps ==
    ASSUME IInv, NEW p \in Pass, Send(p)
    PROVE  IInv'
<1> USE DEF IInv
<1>1. PICK item \in Current(p) :
         /\ network' = network \cup {<<p, item.mutation>>}
         /\ pass' = [pass EXCEPT ![p].answer = "waiting"]
         /\ UNCHANGED <<filed, acked, queue, stamp, ui, server, docs>>
  BY DEF Send
<1>2. /\ item \in Known /\ pass[p] \in Pushing /\ pass[p].phase = "push"
      /\ Batch(p) = pass[p].batch
  BY CurrentIsPushed
<1> DEFINE next == [phase |-> "push", batch |-> pass[p].batch, answer |-> "waiting"]
<1>3. pass' = [pass EXCEPT ![p] = next]
  <2>1. [pass[p] EXCEPT !.answer = "waiting"] = next
    BY <1>2 DEF Pushing
  <2>2. pass' = [pass EXCEPT ![p] = [pass[p] EXCEPT !.answer = "waiting"]]
    BY <1>1
  <2> QED
    BY <2>1, <2>2
<1>4. /\ next \in Pushing /\ next.phase = "push" /\ next.batch \subseteq Known
      /\ next.answer # "ok"
  BY <1>2 DEF Pushing, Known
<1> HIDE DEF next
<1>5. /\ pass' \in [Pass -> Pushing \cup Uploading \cup {Asleep}]
      /\ StampsIdentify' /\ AnswersAreTrue'
  BY <1>1, <1>3, <1>4, PassMoves
<1>6. network' \subseteq Sender \X DOMAIN filed
  BY <1>1, <1>2 DEF TypeOK, Sender, StampsIdentify
<1>7. TypeOK' /\ StageActionsKept' /\ SyncedIsStored'
  BY <1>1, <1>5, <1>6 DEF TypeOK, StageActionsKept, Queued, SyncedIsStored, server
<1>8. UploadsAreStored'
  BY <1>1, <1>3, <1>4 DEF TypeOK, UploadsAreStored
<1> QED
  BY <1>5, <1>7, <1>8

\* After an item, whatever became of it.
LEMMA NextItemMoves ==
    ASSUME IInv, NEW p \in Pass, NEW item \in Current(p), NextItem(p, item),
           UNCHANGED <<filed, acked, stamp, ui, network, server, docs>>,
           queue' \subseteq Item,
           \A i \in queue' : \E j \in queue : i.at = j.at /\ i.mutation = j.mutation,
           \A i \in queue : i.mutation \in delivered \/
               \E j \in queue' : j.mutation = i.mutation /\ j.action = i.action
    PROVE  IInv'
<1> USE DEF IInv
<1>1. /\ pass[p] \in Pushing /\ pass[p].phase = "push" /\ Batch(p) = pass[p].batch
  BY CurrentIsPushed
<1> DEFINE next == [phase |-> "push", batch |-> pass[p].batch \ {item}, answer |-> "none"]
<1>2. pass' = [pass EXCEPT ![p] = next]
  BY DEF NextItem
<1>3. /\ next \in Pushing /\ next.phase = "push" /\ next.batch \subseteq Known
      /\ next.answer # "ok"
  BY <1>1 DEF Pushing, Known
<1> HIDE DEF next
<1>4. /\ pass' \in [Pass -> Pushing \cup Uploading \cup {Asleep}]
      /\ StampsIdentify' /\ AnswersAreTrue'
  BY <1>2, <1>3, PassMoves
<1>5. TypeOK' /\ SyncedIsStored'
  BY <1>4 DEF TypeOK, SyncedIsStored, server
<1>6. StageActionsKept'
  BY QueueKeepsActions
<1>7. UploadsAreStored'
  BY <1>2, <1>3 DEF TypeOK, UploadsAreStored
<1> QED
  BY <1>4, <1>5, <1>6, <1>7

\* The row that is deleted is that of the mutation that was answered.
LEMMA DeleteQueueItemKeeps ==
    ASSUME IInv, NEW p \in Pass, DeleteQueueItem(p)
    PROVE  IInv'
<1>1. PICK item \in Current(p) :
         /\ pass[p].answer = "ok"
         /\ queue' = {other \in queue : other.at # item.at}
         /\ NextItem(p, item)
         /\ UNCHANGED <<filed, acked, stamp, ui, network, server, docs>>
  BY DEF DeleteQueueItem, Delete
<1>2. item \in Known /\ item.mutation \in delivered
  BY <1>1, CurrentIsPushed DEF IInv, AnswersAreTrue
<1>3. ASSUME NEW i \in queue
      PROVE  i.mutation \in delivered \/ i \in queue'
  BY <1>1, <1>2 DEF IInv, StampsIdentify, Known
<1>4. queue' \subseteq Item /\ queue' \subseteq queue
  BY <1>1 DEF IInv, TypeOK
<1> QED
  BY <1>1, <1>3, <1>4, NextItemMoves

\* The rows of the queue but for what is due.
LEMMA SetDueKeeps ==
    ASSUME TypeOK, NEW at, NEW value \in BOOLEAN, SetDue(at, value)
    PROVE  /\ queue' \subseteq Item
           /\ \A i \in queue' : \E j \in queue : i.at = j.at /\ i.mutation = j.mutation
           /\ \A i \in queue : \E j \in queue' : j.mutation = i.mutation /\ j.action = i.action
<1> DEFINE new(i) == IF i.at = at THEN [i EXCEPT !.due = value] ELSE i
<1>1. ASSUME NEW i \in queue
      PROVE  new(i) \in Item /\ new(i).at = i.at /\ new(i).mutation = i.mutation
             /\ new(i).action = i.action
  BY DEF TypeOK, Item
<1>2. queue' = {new(i) : i \in queue}
  BY DEF SetDue
<1> HIDE DEF new
<1> QED
  BY <1>1, <1>2

LEMMA RecordQueueFailureKeeps ==
    ASSUME IInv, NEW p \in Pass, RecordQueueFailure(p)
    PROVE  IInv'
<1>1. PICK item \in Current(p) :
         /\ SetDue(item.at, FALSE)
         /\ NextItem(p, item)
         /\ UNCHANGED <<filed, acked, stamp, ui, network, server, docs>>
  BY DEF RecordQueueFailure
<1> QED
  BY <1>1, SetDueKeeps, NextItemMoves DEF IInv

LEMMA BackoffElapsesKeeps ==
    ASSUME IInv, NEW at \in Stamp, BackoffElapses(at)
    PROVE  IInv'
<1> USE DEF IInv
<1>1. SetDue(at, TRUE) /\ UNCHANGED <<filed, acked, stamp, ui, pass, network, server, docs>>
  BY DEF BackoffElapses
<1>2. /\ queue' \subseteq Item
      /\ \A i \in queue' : \E j \in queue : i.at = j.at /\ i.mutation = j.mutation
      /\ \A i \in queue : \E j \in queue' : j.mutation = i.mutation /\ j.action = i.action
  BY <1>1, SetDueKeeps
<1>3. \A p \in Pass : Batch(p)' = Batch(p) /\ Current(p)' = Current(p)
  BY <1>1 DEF Batch, Current
<1>4. StampsIdentify'
  <2>1. \A i \in Known' : \E j \in Known : i.at = j.at /\ i.mutation = j.mutation
    BY <1>2, <1>3 DEF Known
  <2> QED
    BY <1>1, <2>1, KnownKept
<1>5. TypeOK' /\ SyncedIsStored' /\ UploadsAreStored'
  BY <1>1, <1>2 DEF TypeOK, SyncedIsStored, UploadsAreStored, server
<1>6. StageActionsKept'
  BY <1>1, <1>2, QueueKeepsActions
<1>7. AnswersAreTrue'
  BY <1>1, <1>3 DEF AnswersAreTrue, server
<1> QED
  BY <1>4, <1>5, <1>6, <1>7

-----------------------------------------------------------------------------
(* The uploads, and the end of a pass. *)

\* A pass that goes to another phase, or takes its documents one further.
LEMMA UploadMoves ==
    ASSUME IInv, NEW p \in Pass, NEW next \in Uploading \cup {Asleep},
           pass' = [pass EXCEPT ![p] = next],
           UNCHANGED <<filed, acked, queue, stamp, ui, network, server>>,
           docs' \in [Doc -> [saved : BOOLEAN, synced : BOOLEAN, stored : BOOLEAN]],
           \A d \in Doc : docs[d].stored => docs'[d].stored,
           \A d \in Doc : docs'[d].synced => docs[d].synced \/ docs[d].stored,
           next.phase = "upload" => \A d \in next.uploaded : docs'[d].stored
    PROVE  IInv'
<1> USE DEF IInv
<1>1. next.phase # "push"
  BY DEF Uploading, Asleep
<1>2. /\ pass' \in [Pass -> Pushing \cup Uploading \cup {Asleep}]
      /\ StampsIdentify' /\ AnswersAreTrue'
  BY <1>1, PassMoves
<1>3. TypeOK' /\ StageActionsKept'
  BY <1>2 DEF TypeOK, StageActionsKept, Queued, server
<1>4. SyncedIsStored'
  BY DEF SyncedIsStored
<1>5. ASSUME NEW q \in Pass, pass'[q].phase = "upload", NEW d \in pass'[q].uploaded
      PROVE  docs'[d].stored
  <2>1. CASE q = p
    BY <1>5, <2>1 DEF TypeOK
  <2>2. CASE q # p
    <3>1. pass'[q] = pass[q]
      BY <2>2 DEF TypeOK
    <3>2. d \in Doc
      BY <1>5, <3>1, PassPhases DEF Uploading
    <3> QED
      BY <1>5, <3>1, <3>2 DEF UploadsAreStored
  <2> QED
    BY <2>1, <2>2
<1>6. UploadsAreStored'
  BY <1>5 DEF UploadsAreStored
<1> QED
  BY <1>2, <1>3, <1>4, <1>6

LEMMA StartUploadsKeeps ==
    ASSUME IInv, NEW p \in Pass, StartUploads(p)
    PROVE  IInv'
<1> DEFINE next == [phase |-> "upload", pending |-> PendingDocs, uploaded |-> {}]
<1>1. /\ pass' = [pass EXCEPT ![p] = next]
      /\ UNCHANGED <<filed, acked, queue, stamp, ui, network, server, docs>>
  BY DEF StartUploads
<1>2. next \in Uploading /\ next.uploaded = {}
  BY DEF Uploading, PendingDocs
<1> HIDE DEF next
<1> QED
  BY <1>1, <1>2, UploadMoves DEF IInv, TypeOK

LEMMA UploadKeeps ==
    ASSUME IInv, NEW p \in Pass, NEW d \in Doc, Upload(p, d)
    PROVE  IInv'
<1>1. PICK stored \in BOOLEAN, answered \in BOOLEAN :
         /\ docs' = [docs EXCEPT ![d].stored = @ \/ stored]
         /\ pass' = [pass EXCEPT ![p] =
                       [phase |-> "upload", pending |-> @.pending \ {d},
                        uploaded |-> @.uploaded \cup {e \in {d} : stored /\ answered}]]
  BY DEF Upload
<1> DEFINE next == [phase |-> "upload", pending |-> pass[p].pending \ {d},
                    uploaded |-> pass[p].uploaded \cup {e \in {d} : stored /\ answered}]
<1>2. pass[p].phase = "upload" /\ UNCHANGED <<filed, acked, queue, stamp, ui, network, server>>
  BY DEF Upload
<1>3. pass' = [pass EXCEPT ![p] = next]
  BY <1>1
<1>4. pass[p] \in Uploading
  BY <1>2, PassPhases DEF IInv
<1>5. /\ next \in Uploading
      /\ \A e \in next.uploaded : e \in pass[p].uploaded \/ (e = d /\ stored)
      /\ \A e \in next.uploaded : e \in Doc
  BY <1>4 DEF Uploading
<1>6. /\ docs' \in [Doc -> [saved : BOOLEAN, synced : BOOLEAN, stored : BOOLEAN]]
      /\ \A e \in Doc : docs'[e].synced = docs[e].synced
      /\ \A e \in Doc : docs[e].stored => docs'[e].stored
      /\ stored => docs'[d].stored
  <2>1. docs \in [Doc -> [saved : BOOLEAN, synced : BOOLEAN, stored : BOOLEAN]]
    BY DEF IInv, TypeOK
  <2>2. docs[d].stored \/ stored \in BOOLEAN
    BY Zenon
  <2>3. docs' = [docs EXCEPT ![d] = [docs[d] EXCEPT !.stored = docs[d].stored \/ stored]]
    BY <1>1, Zenon
  <2> DEFINE new == docs[d].stored \/ stored
  <2>4. new \in BOOLEAN /\ (docs[d].stored => new) /\ (stored => new)
    BY <2>2, Zenon
  <2>5. docs' = [docs EXCEPT ![d] = [docs[d] EXCEPT !.stored = new]]
    BY <2>3, Zenon
  <2> HIDE DEF new
  <2> QED
    BY <2>1, <2>4, <2>5
<1> HIDE DEF next
<1>7. \A e \in next.uploaded : docs'[e].stored
  BY <1>2, <1>5, <1>6 DEF IInv, UploadsAreStored
<1> QED
  BY <1>2, <1>3, <1>5, <1>6, <1>7, UploadMoves

\* Only an uploaded document is marked.
LEMMA MarkSyncedKeeps ==
    ASSUME IInv, NEW p \in Pass, NEW d \in Doc, MarkSynced(p, d)
    PROVE  IInv'
<1>1. /\ docs' = [docs EXCEPT ![d].synced = TRUE]
      /\ pass' = [pass EXCEPT ![p].uploaded = @ \ {d}]
      /\ pass[p].phase = "upload" /\ d \in pass[p].uploaded
      /\ UNCHANGED <<filed, acked, queue, stamp, ui, network, server>>
  BY DEF MarkSynced
<1> DEFINE next == [phase |-> "upload", pending |-> pass[p].pending,
                    uploaded |-> pass[p].uploaded \ {d}]
<1>2. pass[p] \in Uploading
  BY <1>1, PassPhases DEF IInv
<1>3. pass' = [pass EXCEPT ![p] = next]
  <2>1. [pass[p] EXCEPT !.uploaded = pass[p].uploaded \ {d}] = next
    BY <1>2 DEF Uploading
  <2>2. pass' = [pass EXCEPT ![p] = [pass[p] EXCEPT !.uploaded = pass[p].uploaded \ {d}]]
    BY <1>1
  <2> QED
    BY <2>1, <2>2
<1>4. /\ next \in Uploading /\ next.uploaded \subseteq pass[p].uploaded
      /\ \A e \in next.uploaded : e \in Doc
  BY <1>2 DEF Uploading
<1>5. /\ docs' \in [Doc -> [saved : BOOLEAN, synced : BOOLEAN, stored : BOOLEAN]]
      /\ \A e \in Doc : docs'[e].stored = docs[e].stored
      /\ \A e \in Doc \ {d} : docs'[e].synced = docs[e].synced
  <2>1. docs \in [Doc -> [saved : BOOLEAN, synced : BOOLEAN, stored : BOOLEAN]]
    BY DEF IInv, TypeOK
  <2>2. docs' = [docs EXCEPT ![d] = [docs[d] EXCEPT !.synced = TRUE]]
    BY <1>1
  <2>3. [docs[d] EXCEPT !.synced = TRUE] \in [saved : BOOLEAN, synced : BOOLEAN, stored : BOOLEAN]
    BY <2>1
  <2>4. docs' \in [Doc -> [saved : BOOLEAN, synced : BOOLEAN, stored : BOOLEAN]]
    BY <2>1, <2>2, <2>3
  <2>5. \A e \in Doc : docs'[e].stored = docs[e].stored
    BY <2>1, <2>2
  <2>6. \A e \in Doc \ {d} : docs'[e].synced = docs[e].synced
    BY <2>1, <2>2
  <2> QED
    BY <2>4, <2>5, <2>6
<1>6. docs[d].stored
  BY <1>1 DEF IInv, UploadsAreStored
<1> HIDE DEF next
<1>7. \A e \in next.uploaded : docs'[e].stored
  BY <1>1, <1>4, <1>5 DEF IInv, UploadsAreStored
<1> QED
  BY <1>1, <1>3, <1>4, <1>5, <1>6, <1>7, UploadMoves

LEMMA EndSyncKeeps ==
    ASSUME IInv, NEW p \in Pass, EndSync(p)
    PROVE  IInv'
<1>1. /\ pass' = [pass EXCEPT ![p] = Asleep]
      /\ UNCHANGED <<filed, acked, queue, stamp, ui, network, server, docs>>
  BY DEF EndSync
<1>2. Asleep.phase # "upload"
  BY DEF Asleep
<1> QED
  BY <1>1, <1>2, UploadMoves DEF IInv, TypeOK

LEMMA KilledKeeps ==
    ASSUME IInv, Killed
    PROVE  IInv'
<1> USE DEF IInv
<1>1. /\ ui' = <<>> /\ pass' = [p \in Pass |-> Asleep]
      /\ UNCHANGED <<filed, acked, queue, stamp, network, server, docs>>
  BY DEF Killed
<1>2. DOMAIN ui' = {}
  BY <1>1
<1>3. \A p \in Pass : Batch(p)' = {} /\ Current(p)' = {}
  BY <1>1 DEF Batch, Current, Asleep
<1>4. StampsIdentify'
  <2>1. Known' \subseteq Known
    BY <1>1, <1>3 DEF Known
  <2> QED
    BY <1>1, <2>1, KnownKept
<1>5. TypeOK'
  BY <1>1, <1>2 DEF TypeOK, server
<1>6. StageActionsKept' /\ SyncedIsStored' /\ UploadsAreStored'
  BY <1>1 DEF StageActionsKept, Queued, SyncedIsStored, UploadsAreStored, Asleep, server
<1>7. AnswersAreTrue'
  BY <1>1, <1>2, <1>3 DEF AnswersAreTrue, server
<1> QED
  BY <1>4, <1>5, <1>6, <1>7

-----------------------------------------------------------------------------
(* The server. *)

\* The answer reaches a pass: its item stays where it is, and is the one that
\* was applied.
LEMMA AnswerToPass ==
    ASSUME IInv, NEW p \in Pass, NEW m, m \in delivered',
           delivered \subseteq delivered',
           \E item \in Current(p) : item.mutation = m,
           pass' = [pass EXCEPT ![p].answer = "ok"],
           UNCHANGED <<filed, queue, stamp, docs>>
    PROVE  /\ pass' \in [Pass -> Pushing \cup Uploading \cup {Asleep}]
           /\ StampsIdentify' /\ UploadsAreStored'
           /\ \A q \in Pass : \A item \in Current(q)' :
                pass'[q].answer = "ok" => item.mutation \in delivered'
<1> USE DEF IInv
<1>1. PICK item \in Current(p) : item.mutation = m
  OBVIOUS
<1>2. /\ pass[p] \in Pushing /\ pass[p].phase = "push" /\ Batch(p) = pass[p].batch
  BY CurrentIsPushed
<1> DEFINE next == [phase |-> "push", batch |-> pass[p].batch, answer |-> "ok"]
<1>3. pass' = [pass EXCEPT ![p] = next]
  <2>1. [pass[p] EXCEPT !.answer = "ok"] = next
    BY <1>2 DEF Pushing
  <2>2. pass' = [pass EXCEPT ![p] = [pass[p] EXCEPT !.answer = "ok"]]
    OBVIOUS
  <2> QED
    BY <2>1, <2>2
<1>4. next \in Pushing /\ next.phase = "push" /\ next.batch = pass[p].batch
  BY <1>2 DEF Pushing
<1> HIDE DEF next
<1>5. /\ pass' \in [Pass -> Pushing \cup Uploading \cup {Asleep}]
      /\ pass'[p] = next /\ \A q \in Pass \ {p} : pass'[q] = pass[q]
  BY <1>3, <1>4 DEF TypeOK
<1>6. \A q \in Pass : Batch(q)' = Batch(q) /\ Current(q)' = Current(q)
  BY <1>2, <1>4, <1>5 DEF Batch, Current
<1>7. StampsIdentify'
  <2>1. Known' = Known
    BY <1>6 DEF Known
  <2> QED
    BY <2>1 DEF StampsIdentify
<1>8. UploadsAreStored'
  BY <1>4, <1>5 DEF UploadsAreStored
<1>9. ASSUME NEW q \in Pass, NEW other \in Current(q)', pass'[q].answer = "ok"
      PROVE  other.mutation \in delivered'
  <2>1. CASE q = p
    BY <1>1, <1>6, <1>9, <2>1, CurrentIsOne
  <2>2. CASE q # p
    BY <1>5, <1>6, <1>9, <2>2 DEF AnswersAreTrue
  <2> QED
    BY <2>1, <2>2
<1> QED
  BY <1>5, <1>7, <1>8, <1>9

LEMMA ApplyKeeps ==
    ASSUME IInv, NEW sender \in Sender, NEW m \in Mutation, Apply(sender, m)
    PROVE  IInv'
<1> USE DEF IInv
<1>1. /\ <<sender, m>> \in network /\ m \in DOMAIN filed
      /\ report' = [mutation |-> m, status |-> "submitted"]
      /\ delivered' = delivered \cup {m}
      /\ network' = network \ {<<sender, m>>}
      /\ Answer(sender, m) \/ UNCHANGED <<ui, pass>>
      /\ UNCHANGED <<filed, acked, queue, stamp, drafts, signed, policy, docs>>
  BY DEF Apply, StoreReport, TypeOK
<1>2. delivered \subseteq delivered' /\ m \in delivered' /\ delivered' \subseteq DOMAIN filed
  BY <1>1 DEF TypeOK
<1>3. /\ DOMAIN ui' = DOMAIN ui
      /\ \A k \in DOMAIN ui' : ui'[k] \in {"waiting", "ok"}
      /\ \A k \in DOMAIN ui' : ui'[k] = "ok" => k \in delivered'
  <2>1. CASE UNCHANGED ui
    BY <1>2, <2>1 DEF TypeOK, AnswersAreTrue
  <2>2. CASE ui' = [ui EXCEPT ![m] = "ok"]
    BY <1>2, <2>2 DEF TypeOK, AnswersAreTrue
  <2> QED
    BY <1>1, <2>1, <2>2 DEF Answer
<1>4. /\ pass' \in [Pass -> Pushing \cup Uploading \cup {Asleep}]
      /\ StampsIdentify' /\ UploadsAreStored'
      /\ \A q \in Pass : \A item \in Current(q)' :
           pass'[q].answer = "ok" => item.mutation \in delivered'
  <2>1. CASE UNCHANGED pass
    <3>1. \A q \in Pass : Batch(q)' = Batch(q) /\ Current(q)' = Current(q)
      BY <2>1 DEF Batch, Current
    <3>2. Known' = Known
      BY <1>1, <3>1 DEF Known
    <3>3. StampsIdentify'
      BY <1>1, <3>2 DEF StampsIdentify
    <3> QED
      BY <1>1, <1>2, <2>1, <3>1, <3>3 DEF TypeOK, AnswersAreTrue, UploadsAreStored
  <2>2. CASE sender \in Pass /\ (\E item \in Current(sender) : item.mutation = m)
             /\ pass' = [pass EXCEPT ![sender].answer = "ok"]
    BY <1>1, <1>2, <2>2, AnswerToPass
  <2> QED
    BY <1>1, <2>1, <2>2 DEF Answer, Sender
<1>5. TypeOK'
  <2>1. network' \subseteq Sender \X DOMAIN filed'
    BY <1>1 DEF TypeOK
  <2>2. report' \in [mutation : DOMAIN filed', status : {"submitted", "concurred", "returned"}]
    BY <1>1
  <2>3. signed' \subseteq delivered'
    BY <1>1, <1>2 DEF TypeOK
  <2> QED
    BY <1>1, <1>2, <1>3, <1>4, <2>1, <2>2, <2>3 DEF TypeOK
<1>6. StageActionsKept' /\ SyncedIsStored'
  BY <1>1, <1>2 DEF StageActionsKept, Queued, SyncedIsStored
<1>7. AnswersAreTrue'
  BY <1>1, <1>2, <1>3, <1>4 DEF AnswersAreTrue
<1> QED
  BY <1>4, <1>5, <1>6, <1>7

LEMMA ManagerSignsOffKeeps ==
    ASSUME IInv, NEW decision \in {"concurred", "returned"}, ManagerSignsOff(decision)
    PROVE  IInv'
<1> USE DEF IInv
<1>1. /\ report.status = "submitted"
      /\ report' = [report EXCEPT !.status = decision]
      /\ signed' = signed \cup {report.mutation}
      /\ UNCHANGED <<filed, acked, queue, stamp, ui, pass, network, delivered, drafts, policy,
                     docs>>
  BY DEF ManagerSignsOff, phone
<1>2. report \in [mutation : DOMAIN filed, status : {"submitted", "concurred", "returned"}]
  BY <1>1 DEF TypeOK, NoReport
<1>3. /\ report' \in [mutation : DOMAIN filed, status : {"submitted", "concurred", "returned"}]
      /\ report'.mutation = report.mutation
  BY <1>1, <1>2
<1>4. report.mutation \in delivered
  BY <1>1 DEF AnswersAreTrue
<1>5. TypeOK'
  BY <1>1, <1>3, <1>4 DEF TypeOK
<1>6. \A p \in Pass : Batch(p)' = Batch(p) /\ Current(p)' = Current(p)
  BY <1>1 DEF Batch, Current
<1>7. StampsIdentify' /\ AnswersAreTrue'
  <2>1. Known' = Known
    BY <1>1, <1>6 DEF Known
  <2> QED
    BY <1>1, <1>3, <1>4, <1>6, <2>1 DEF StampsIdentify, AnswersAreTrue
<1>8. StageActionsKept' /\ SyncedIsStored' /\ UploadsAreStored'
  BY <1>1 DEF StageActionsKept, Queued, SyncedIsStored, UploadsAreStored
<1> QED
  BY <1>5, <1>7, <1>8

LEMMA SubmitKeeps ==
    ASSUME IInv, SubmitToBranchManager
    PROVE  IInv'
<1> USE DEF IInv
<1>1. UNCHANGED <<filed, acked, queue, stamp, ui, pass, network, delivered, drafts, report,
                  signed, docs>>
  BY DEF SubmitToBranchManager, phone
<1>2. policy' \in BOOLEAN \X BOOLEAN
  BY DEF SubmitToBranchManager, TypeOK, policy
<1>3. \A p \in Pass : Batch(p)' = Batch(p) /\ Current(p)' = Current(p)
  BY <1>1 DEF Batch, Current
<1>4. Known' = Known
  BY <1>1, <1>3 DEF Known
<1> QED
  BY <1>1, <1>2, <1>3, <1>4 DEF TypeOK, StageActionsKept, Queued, SyncedIsStored,
     StampsIdentify, AnswersAreTrue, UploadsAreStored

-----------------------------------------------------------------------------
(* The theorems. *)

LEMMA Initially == Init => IInv
<1> SUFFICES ASSUME Init PROVE IInv
  OBVIOUS
<1>1. /\ filed = <<>> /\ acked = {} /\ queue = {} /\ stamp = 0 /\ ui = <<>>
      /\ pass = [p \in Pass |-> Asleep] /\ network = {} /\ delivered = {} /\ drafts = 0
      /\ report = NoReport /\ signed = {}
      /\ docs = [d \in Doc |-> [saved |-> FALSE, synced |-> FALSE, stored |-> FALSE]]
  BY DEF Init
<1>2. DOMAIN ui = {} /\ filed \in Seq(Action) /\ Len(filed) = 0
  BY <1>1
<1>3. \A p \in Pass : Batch(p) = {} /\ Current(p) = {}
  BY <1>1 DEF Batch, Current, Asleep
<1>8. policy \in BOOLEAN \X BOOLEAN
  BY DEF Init, policy
<1>4. TypeOK
  BY <1>1, <1>2, <1>8, BoundAssumption DEF TypeOK
<1>5. Known = {}
  BY <1>1, <1>3 DEF Known
<1>6. StampsIdentify
  BY <1>5 DEF StampsIdentify
<1>7. StageActionsKept /\ SyncedIsStored /\ AnswersAreTrue /\ UploadsAreStored
  BY <1>1, <1>2, <1>3 DEF StageActionsKept, SyncedIsStored, AnswersAreTrue, UploadsAreStored,
                          NoReport, Asleep
<1> QED
  BY <1>4, <1>6, <1>7 DEF IInv

\* IInv is inductive.
THEOREM Invariance == Spec => []IInv
<1>1. ASSUME IInv, [Next]_vars
      PROVE  IInv'
  <2>1. CASE Officer
    BY <1>1, <2>1, CreateApplicationKeeps, FileStageActionKeeps, TryEndsKeeps, SaveDocumentKeeps
       DEF Officer
  <2>2. CASE Replay
    BY <1>1, <2>2, StartSyncKeeps, SendKeeps, DeleteQueueItemKeeps, RecordQueueFailureKeeps,
       StartUploadsKeeps, EndSyncKeeps, UploadKeeps, MarkSyncedKeeps, BackoffElapsesKeeps,
       KilledKeeps DEF Replay
  <2>3. CASE Outside
    BY <1>1, <2>3, ApplyKeeps, ManagerSignsOffKeeps, SubmitKeeps DEF Outside
  <2>4. CASE UNCHANGED vars
    <3>1. UNCHANGED <<filed, acked, queue, stamp, ui, pass, network, delivered, drafts,
                      report, signed, policy, docs>>
      BY <2>4 DEF vars, phone, server
    <3>2. \A p \in Pass : Batch(p)' = Batch(p) /\ Current(p)' = Current(p)
      BY <3>1 DEF Batch, Current
    <3>3. Known' = Known
      BY <3>1, <3>2 DEF Known
    <3> QED
      BY <1>1, <3>1, <3>2, <3>3 DEF IInv, TypeOK, StageActionsKept, Queued, SyncedIsStored,
         StampsIdentify, AnswersAreTrue, UploadsAreStored
  <2> QED
    BY <1>1, <2>1, <2>2, <2>3, <2>4 DEF Next
<1> QED
  BY <1>1, Initially, PTL DEF Spec

\* The tables, the passes and the requests under way are well formed.
THEOREM TypeCorrect == Spec => []TypeOK
BY Invariance, PTL DEF IInv

\* A stage action the officer was told is done is on the server or in the
\* queue, whatever requests, answers and processes are lost (README.md:276).
THEOREM ActionsAreKept == Spec => []StageActionsKept
BY Invariance, PTL DEF IInv

\* A document marked as uploaded is stored on the server
\* (AndroidSyncWorker.doWork, phase 3).
THEOREM MarksAreTrue == Spec => []SyncedIsStored
BY Invariance, PTL DEF IInv
-----------------------------------------------------------------------------
(* The outbox.  A direct try that is open has told the officer nothing yet, *)
(* so that every action is confirmed or kept once.                          *)

TriesAreOpen == \A m \in DOMAIN ui : m \in StageActions /\ m \notin acked

BoxInv == IInv /\ TriesAreOpen

\* What a step has to show: it is one of the outbox or leaves it alone.
BoxKept == TriesAreOpen' /\ [Box!Next]_(Box!outbox)

\* Before the officer has done anything the outbox is empty.
LEMMA BoxInit == Init => TriesAreOpen /\ Box!Init
<1> SUFFICES ASSUME Init PROVE TriesAreOpen /\ Box!Init
  OBVIOUS
<1>1. filed = <<>> /\ acked = {} /\ delivered = {} /\ queue = {} /\ ui = <<>>
  BY DEF Init
<1>2. DOMAIN ui = {} /\ DOMAIN filed = {}
  BY <1>1
<1> QED
  BY <1>1, <1>2 DEF TriesAreOpen, StageActions, Box!Init

\* A step that leaves these alone is none of the outbox.
LEMMA SameOutbox ==
    ASSUME UNCHANGED <<filed, acked, delivered>>,
           \A m \in StageActions : Queued(m)' <=> Queued(m)
    PROVE  UNCHANGED Box!outbox
<1>1. StageActions' = StageActions
  BY DEF StageActions
<1>2. {m \in StageActions : Queued(m)}' = {m \in StageActions : Queued(m)}
  BY <1>1
<1> QED
  BY <1>1, <1>2 DEF Box!outbox

\* A creation the phone posts or queues concerns no stage action.
LEMMA PostIsAside ==
    ASSUME NEW n, NEW posted, NEW answered, PostCreation(n, posted, answered)
    PROVE  \A m, action : action # "CREATE_APPLICATION" =>
             ((\E item \in queue' : item.mutation = m /\ item.action = action) <=>
              (\E item \in queue : item.mutation = m /\ item.action = action))
<1>1. CASE UNCHANGED queue
  BY <1>1
<1>2. CASE Enqueue(n, "CREATE_APPLICATION")
  <2> DEFINE new == [at |-> stamp', mutation |-> n, action |-> "CREATE_APPLICATION", due |-> TRUE]
  <2>1. queue' = queue \cup {new} /\ new.action = "CREATE_APPLICATION"
    BY <1>2 DEF Enqueue
  <2> HIDE DEF new
  <2> QED
    BY <2>1
<1> QED
  BY <1>1, <1>2 DEF PostCreation

\* The officer files another action.
LEMMA FilingSteps ==
    ASSUME BoxInv, CreateApplication \/ \E action \in Action : FileStageAction(action)
    PROVE  BoxKept
<1> DEFINE n == Len(filed) + 1
<1> USE DEF BoxInv, IInv
<1>1. PICK action \in Action, posted \in BOOLEAN, answered \in BOOLEAN :
        /\ filed' = Append(filed, action) /\ n <= MaxMutations
        /\ PostCreation(n, posted, answered)
        /\ \/ /\ action = "CREATE_APPLICATION" /\ ui' = ui
              /\ acked' = acked \cup {n} /\ delivered' \in {delivered, delivered \cup {n}}
           \/ /\ action # "CREATE_APPLICATION"
              /\ ui' = [k \in DOMAIN ui \cup {n} |-> IF k = n THEN "waiting" ELSE ui[k]]
              /\ UNCHANGED <<acked, delivered>>
  <2>1. CASE CreateApplication
    BY <2>1 DEF CreateApplication, Action
  <2>2. ASSUME NEW action \in Action, FileStageAction(action)
        PROVE  action # "CREATE_APPLICATION"
    BY <2>2 DEF FileStageAction
  <2>3. CASE \E action \in Action : FileStageAction(action)
    BY <2>2, <2>3 DEF FileStageAction
  <2> QED
    BY <2>1, <2>3
<1>2. /\ n \in Mutation /\ n \in DOMAIN filed' /\ n \notin DOMAIN filed
      /\ DOMAIN filed \subseteq DOMAIN filed' /\ filed'[n] = action
      /\ \A k \in DOMAIN filed : filed'[k] = filed[k]
  BY <1>1, FiledGrows
<1>3. DOMAIN filed' = DOMAIN filed \cup {n}
  <2>1. filed \in Seq(Action) /\ Len(filed) \in Nat
    BY DEF TypeOK
  <2> QED
    BY <1>1, <2>1
<1>4. n \notin acked /\ n \notin delivered
  BY <1>2 DEF TypeOK
<1>5. \A item \in queue : item.mutation # n
  BY <1>2 DEF StampsIdentify, Known
<1> HIDE DEF n
<1>6. \A m, a : a # "CREATE_APPLICATION" =>
        ((\E item \in queue' : item.mutation = m /\ item.action = a) <=>
         (\E item \in queue : item.mutation = m /\ item.action = a))
  BY <1>1, PostIsAside
<1>7. \A m \in StageActions : /\ Queued(m)' <=> Queued(m)
                              /\ m \in DOMAIN filed /\ filed'[m] = filed[m] /\ m # n
  BY <1>2, <1>6 DEF StageActions, Queued
<1>8. CASE action = "CREATE_APPLICATION"
  <2>1. \A m : m \in StageActions' <=> m \in StageActions
    BY <1>2, <1>3, <1>7, <1>8 DEF StageActions
  <2>2. StageActions' = StageActions
    BY <2>1 DEF StageActions
  <2>3. {m \in StageActions : Queued(m)}' = {m \in StageActions : Queued(m)}
    BY <1>7, <2>2
  <2>4. /\ UNCHANGED ui /\ acked' = acked \cup {n}
        /\ delivered' = delivered \/ delivered' = delivered \cup {n}
    BY <1>1, <1>8
  <2>5. (acked \cap StageActions)' = acked \cap StageActions
        /\ (delivered \cap StageActions)' = delivered \cap StageActions
    BY <1>7, <2>2, <2>4
  <2>6. TriesAreOpen'
    BY <1>7, <2>2, <2>4 DEF TriesAreOpen
  <2> QED
    BY <2>2, <2>3, <2>5, <2>6 DEF BoxKept, Box!outbox
<1>9. CASE action # "CREATE_APPLICATION"
  <2>1. \A m : m \in StageActions' <=> m \in StageActions \/ m = n
    BY <1>2, <1>3, <1>7, <1>9 DEF StageActions
  <2>2. StageActions' = StageActions \cup {n} /\ n \notin StageActions
    BY <1>7, <2>1
  <2>3. /\ ui' = [k \in DOMAIN ui \cup {n} |-> IF k = n THEN "waiting" ELSE ui[k]]
        /\ UNCHANGED <<acked, delivered>>
    BY <1>1, <1>9
  <2>4. \A m : m = n => ~Queued(m)'
    <3>1. ~\E item \in queue' : item.mutation = n /\ item.action = action
      BY <1>5, <1>6, <1>9
    <3> QED
      BY <1>2, <3>1 DEF Queued
  <2>5. \A m : m \in StageActions' /\ Queued(m)' <=> m \in StageActions /\ Queued(m)
    BY <1>7, <2>2, <2>4
  <2>6. {m \in StageActions : Queued(m)}' = {m \in StageActions : Queued(m)}
    BY <2>5
  <2>7. (acked \cap StageActions)' = acked \cap StageActions
        /\ (delivered \cap StageActions)' = delivered \cap StageActions
    BY <1>4, <2>2, <2>3
  <2>8. Box!File(n)
    BY <2>2, <2>6, <2>7 DEF Box!File
  <2>9. TriesAreOpen'
    BY <1>4, <2>2, <2>3 DEF TriesAreOpen
  <2> QED
    BY <1>2, <2>8, <2>9 DEF BoxKept, Box!Next
<1> QED
  BY <1>8, <1>9

\* A direct try ends with an answer, or with its action in the queue.
LEMMA TryEndSteps ==
    ASSUME BoxInv, NEW m \in Mutation, DirectTrySucceeded(m) \/ QueueStageAction(m)
    PROVE  BoxKept
<1> USE DEF BoxInv, IInv
<1>1. /\ ui' = [k \in DOMAIN ui \ {m} |-> ui[k]] /\ m \in DOMAIN ui
      /\ acked' = acked \cup {m} /\ UNCHANGED <<filed, delivered>>
  BY DEF DirectTrySucceeded, QueueStageAction, Forget, server
<1>2. m \in StageActions /\ m \notin acked
  BY <1>1 DEF TriesAreOpen
<1>3. StageActions' = StageActions
  BY <1>1 DEF StageActions
<1>4. TriesAreOpen'
  BY <1>1, <1>3 DEF TriesAreOpen
<1>5. (acked \cap StageActions)' = (acked \cap StageActions) \cup {m}
      /\ (delivered \cap StageActions)' = delivered \cap StageActions
  BY <1>1, <1>2, <1>3
<1>6. CASE DirectTrySucceeded(m)
  <2>1. UNCHANGED queue /\ m \in delivered
    BY <1>6 DEF DirectTrySucceeded, AnswersAreTrue
  <2>2. {k \in StageActions : Queued(k)}' = {k \in StageActions : Queued(k)}
    BY <1>1, <1>3, <2>1 DEF Queued
  <2>3. Box!Confirm(m)
    BY <1>2, <1>3, <1>5, <2>1, <2>2 DEF Box!Confirm
  <2> QED
    BY <1>4, <2>3 DEF BoxKept, Box!Next
<1>7. CASE QueueStageAction(m)
  <2> DEFINE new == [at |-> stamp', mutation |-> m, action |-> filed[m], due |-> TRUE]
  <2>1. queue' = queue \cup {new} /\ new.mutation = m /\ new.action = filed[m]
    BY <1>7 DEF QueueStageAction, Enqueue
  <2> HIDE DEF new
  <2>2. \A k \in StageActions : Queued(k)' <=> Queued(k) \/ k = m
    BY <1>1, <2>1 DEF Queued
  <2>3. {k \in StageActions : Queued(k)}' = {k \in StageActions : Queued(k)} \cup {m}
    BY <1>2, <1>3, <2>2
  <2>4. Box!Keep(m)
    BY <1>2, <1>3, <1>5, <2>3 DEF Box!Keep
  <2> QED
    BY <1>4, <2>4 DEF BoxKept, Box!Next
<1> QED
  BY <1>6, <1>7

\* The row a pass deletes is that of an action which has been applied.
LEMMA ReleaseStep ==
    ASSUME BoxInv, NEW p \in Pass, DeleteQueueItem(p)
    PROVE  BoxKept
<1> USE DEF BoxInv, IInv
<1>1. PICK item \in Current(p) :
         /\ pass[p].answer = "ok"
         /\ queue' = {other \in queue : other.at # item.at}
         /\ UNCHANGED <<filed, acked, ui, server>>
  BY DEF DeleteQueueItem, Delete
<1>2. item \in Known /\ item.mutation \in delivered
  BY <1>1, CurrentIsPushed DEF AnswersAreTrue
<1> DEFINE m == item.mutation
<1>3. \A i \in queue : i.at = item.at => i.mutation = m
  BY <1>2 DEF StampsIdentify, Known
<1>4. UNCHANGED <<filed, acked, delivered>> /\ StageActions' = StageActions
  BY <1>1 DEF StageActions, server
<1>5. \A k \in StageActions : /\ Queued(k)' => Queued(k)
                              /\ k # m => (Queued(k)' <=> Queued(k))
  BY <1>1, <1>3, <1>4 DEF Queued
<1>6. TriesAreOpen'
  BY <1>1, <1>4 DEF TriesAreOpen
<1>7. m \in delivered /\ m \in Mutation
  <2>1. item \in Item
    BY CurrentIsPushed
  <2> QED
    BY <1>2, <2>1 DEF Item
<1> HIDE DEF m
<1>8. CASE m \in StageActions /\ Queued(m) /\ ~Queued(m)'
  <2>1. {k \in StageActions : Queued(k)}' = {k \in StageActions : Queued(k)} \ {m}
    BY <1>4, <1>5, <1>8
  <2>2. Box!Release(m)
    BY <1>4, <1>7, <1>8, <2>1 DEF Box!Release
  <2> QED
    BY <1>6, <1>7, <2>2 DEF BoxKept, Box!Next
<1>9. CASE ~(m \in StageActions /\ Queued(m) /\ ~Queued(m)')
  <2>1. \A k \in StageActions : Queued(k)' <=> Queued(k)
    BY <1>5, <1>9
  <2> QED
    BY <1>4, <1>6, <2>1, SameOutbox DEF BoxKept
<1> QED
  BY <1>8, <1>9

\* What is due does not matter to the outbox.
LEMMA DueIsAside ==
    ASSUME BoxInv, NEW at, NEW value \in BOOLEAN, SetDue(at, value),
           UNCHANGED <<filed, acked, ui, server>>
    PROVE  BoxKept
<1> DEFINE new(i) == IF i.at = at THEN [i EXCEPT !.due = value] ELSE i
<1>1. ASSUME NEW i \in queue
      PROVE  new(i).mutation = i.mutation /\ new(i).action = i.action
  BY DEF BoxInv, IInv, TypeOK, Item
<1>2. queue' = {new(i) : i \in queue}
  BY DEF SetDue
<1> HIDE DEF new
<1>3. \A m \in StageActions : Queued(m)' <=> Queued(m)
  BY <1>1, <1>2 DEF Queued
<1>4. UNCHANGED <<filed, acked, delivered>> /\ TriesAreOpen'
  BY DEF BoxInv, TriesAreOpen, StageActions, server
<1> QED
  BY <1>3, <1>4, SameOutbox DEF BoxKept

\* The steps that touch neither the queue nor what was told or applied.
LEMMA AsideOfBox ==
    ASSUME BoxInv, UNCHANGED <<filed, acked, queue, delivered>>, DOMAIN ui' \subseteq DOMAIN ui
    PROVE  BoxKept
<1>1. \A m \in StageActions : Queued(m)' <=> Queued(m)
  BY DEF Queued
<1>2. TriesAreOpen'
  BY DEF BoxInv, TriesAreOpen, StageActions
<1> QED
  BY <1>1, <1>2, SameOutbox DEF BoxKept

\* A request that arrives is applied, whoever sent it and whenever.
LEMMA ApplyStep ==
    ASSUME BoxInv, NEW sender \in Sender, NEW m \in Mutation, Apply(sender, m)
    PROVE  BoxKept
<1> USE DEF BoxInv, IInv
<1>1. /\ m \in DOMAIN filed /\ filed[m] \in Accepted
      /\ delivered' = delivered \cup {m}
      /\ UNCHANGED <<filed, acked, queue>>
      /\ Answer(sender, m) \/ UNCHANGED ui
  BY DEF Apply, StoreReport, TypeOK
<1>2. m \in StageActions /\ StageActions' = StageActions
  BY <1>1 DEF StageActions, Accepted
<1>3. DOMAIN ui' = DOMAIN ui
  BY <1>1 DEF Answer
<1>4. TriesAreOpen'
  BY <1>1, <1>2, <1>3 DEF TriesAreOpen
<1>5. {k \in StageActions : Queued(k)}' = {k \in StageActions : Queued(k)}
  BY <1>1, <1>2 DEF Queued
<1>6. (delivered \cap StageActions)' = (delivered \cap StageActions) \cup {m}
      /\ (acked \cap StageActions)' = acked \cap StageActions
  BY <1>1, <1>2
<1>7. Box!Apply(m)
  BY <1>2, <1>5, <1>6 DEF Box!Apply
<1> QED
  BY <1>4, <1>7 DEF BoxKept, Box!Next

\* Every step of the phone, the network and the server.
LEMMA BoxStep ==
    ASSUME BoxInv, [Next]_vars
    PROVE  BoxKept
<1>1. CASE Officer
  <2>1. ASSUME NEW d \in Doc, SaveDocument(d)
        PROVE  BoxKept
    BY <2>1, AsideOfBox DEF SaveDocument, phone, server
  <2> QED
    BY <1>1, <2>1, FilingSteps, TryEndSteps DEF Officer
<1>2. ASSUME NEW p \in Pass,
             \/ StartSync(p) \/ Send(p) \/ StartUploads(p) \/ EndSync(p)
             \/ \E d \in Doc : Upload(p, d) \/ MarkSynced(p, d)
      PROVE  BoxKept
  BY <1>2, AsideOfBox DEF StartSync, Send, StartUploads, EndSync, Upload, MarkSynced, server
<1>3. ASSUME NEW p \in Pass, DeleteQueueItem(p) \/ RecordQueueFailure(p)
      PROVE  BoxKept
  BY <1>3, ReleaseStep, DueIsAside DEF RecordQueueFailure
<1>4. ASSUME NEW at \in Stamp, BackoffElapses(at)
      PROVE  BoxKept
  BY <1>4, DueIsAside DEF BackoffElapses
<1>5. CASE Killed
  BY <1>5, AsideOfBox DEF Killed, server
<1>6. ASSUME NEW sender \in Sender, NEW m \in Mutation, Apply(sender, m)
      PROVE  BoxKept
  BY <1>6, ApplyStep
<1>7. ASSUME NEW decision \in {"concurred", "returned"}, ManagerSignsOff(decision)
      PROVE  BoxKept
  BY <1>7, AsideOfBox DEF ManagerSignsOff, phone
<1>8. CASE SubmitToBranchManager
  BY <1>8, AsideOfBox DEF SubmitToBranchManager, phone
<1>9. CASE UNCHANGED vars
  BY <1>9, AsideOfBox DEF vars, phone, server
<1> QED
  BY <1>1, <1>2, <1>3, <1>4, <1>5, <1>6, <1>7, <1>8, <1>9 DEF Next, Replay, Outside

\* The queue is an outbox: each stage action enters it once, and leaves it when
\* the server has applied it, for any number of mutations and overlapping passes.
THEOREM QueueIsAnOutbox == Spec => ImplementsOutbox
<1>1. Init => TriesAreOpen /\ Box!Init
  BY BoxInit
<1>2. IInv /\ TriesAreOpen /\ [Next]_vars => TriesAreOpen' /\ [Box!Next]_(Box!outbox)
  BY BoxStep DEF BoxInv, BoxKept
<1> QED
  BY <1>1, <1>2, Invariance, PTL DEF Spec, ImplementsOutbox, Box!Spec

\* So what has left the queue is done: however passes overlap and tries end,
\* an action whose row is gone has been applied and does not come back.
THEOREM ReleasedActionsAreDone == Spec => ReleasedIsDone
<1>1. ASSUME [Box!Next]_(Box!outbox), NEW m \in StageActions, m \in acked, ~Queued(m)
      PROVE  ~Queued(m)'
  <2> DEFINE kept == {k \in StageActions : Queued(k)}
  <2>1. m \in StageActions' /\ m \notin kept'
    BY <1>1 DEF Box!Next, Box!File, Box!Apply, Box!Confirm, Box!Keep, Box!Release, Box!outbox
  <2> QED
    BY <2>1
<1>2. IInv /\ TriesAreOpen /\ [Next]_vars =>
        /\ TriesAreOpen'
        /\ \A m \in StageActions \cap acked : ~Queued(m) => m \in delivered /\ ~Queued(m)'
  BY <1>1, BoxStep DEF BoxInv, BoxKept, IInv, StageActionsKept, StageActions
<1>3. Init => TriesAreOpen
  BY BoxInit
<1> QED
  BY <1>2, <1>3, Invariance, PTL DEF Spec, ReleasedIsDone
=============================================================================
