------------------------------- MODULE Uploads -------------------------------
(***************************************************************************)
(* Media: pictures are written to the object store first and to the        *)
(* database after.  Evidence for a dispute and pictures of a purchase are  *)
(* uploaded in a context the buyer was given for an order or an item, for  *)
(* a limited time, at most MaxItems in each, each under an idempotency     *)
(* key; other pictures have none of these.  Both tables of contexts work   *)
(* alike and are one here.  Every request draws a new media id.            *)
(***************************************************************************)
EXTENDS Naturals, FiniteSets

CONSTANTS
  Uploads,     \* media ids
  Contexts,    \* upload contexts, named by owner and order or item
  UploadKeys,  \* idempotency keys
  Pictures,    \* what is uploaded, as its request hash tells it apart
  NoContext,   \* of a picture that needs none
  MaxItems     \* pictures in one context

ASSUME UploadAssumption == NoContext \notin Contexts /\ MaxItems \in Nat \ {0}

VARIABLES
  contexts,   \* upload contexts whose expires_at has not passed
  uploading,  \* requests from their upload to their answer
  objects,    \* <<media id, object>> in the object store
  media,      \* rows of media_assets with their variants
  keyed,      \* rows of the idempotency tables
  created,    \* rows that the request which wrote them answered with
  shown       \* rows that any request answered with

mediaVars == <<contexts, uploading, objects, media, keyed, created, shown>>

\* The original is uploaded first and the variants after it.
Objects == {"ORIGINAL", "VARIANT"}
Plain == [context |-> NoContext, key |-> NoContext, picture |-> NoContext]
InContexts == [context : Contexts, key : UploadKeys, picture : Pictures]
MediaRow == [id : Uploads, asked : InContexts \cup {Plain}]

MediaTypeOK ==
  /\ contexts \subseteq Contexts
  /\ uploading \subseteq MediaRow
  /\ objects \subseteq Uploads \X Objects
  /\ media \subseteq MediaRow
  /\ keyed \subseteq MediaRow
  /\ created \subseteq MediaRow /\ shown \subseteq MediaRow

MediaInit ==
  /\ contexts = {} /\ uploading = {} /\ objects = {}
  /\ media = {} /\ keyed = {} /\ created = {} /\ shown = {}

\* Issuing a context again gives the same one, with the later end.
IssueUploadContext(x) ==
  /\ contexts' = contexts \cup {x}
  /\ UNCHANGED <<uploading, objects, media, keyed, created, shown>>
ContextExpires(x) ==
  /\ contexts' = contexts \ {x}
  /\ UNCHANGED <<uploading, objects, media, keyed, created, shown>>

-----------------------------------------------------------------------------
(* The check of both transactions, under a lock on the context's row: what  *)
(* is asked may be written, was written under its key before, or is refused. *)

SameKey(a, b) == a.context = b.context /\ a.key = b.key
InContext(x) == {v \in media : v.asked.context = x}
Accepted(a) ==
  a # Plain =>
    /\ a.context \in contexts
    /\ ~\E r \in keyed : SameKey(r.asked, a)
    /\ Cardinality(InContext(a.context)) < MaxItems
\* The row to replay: the same key for the same picture.
Stored(a) == {r \in keyed : a.context \in contexts /\ r.asked = a}

Unseen(u) ==
  /\ \A q \in uploading \cup media : q.id # u
  /\ \A o \in objects : o[1] # u

\* put, putPurchaseExperienceMedia and putBuyerDisputeMedia up to the upload.
BeginUpload(u, a) ==
  /\ Unseen(u)
  /\ Accepted(a)
  /\ uploading' = uploading \cup {[id |-> u, asked |-> a]}
  /\ UNCHANGED <<contexts, objects, media, keyed, created, shown>>
ReplayAtOnce(a) ==
  /\ \E r \in Stored(a) : shown' = shown \cup {r}
  /\ UNCHANGED <<contexts, uploading, objects, media, keyed, created>>

ObjectsOf(q) == {q.id} \X Objects
NextObject(q) ==
  IF <<q.id, "ORIGINAL">> \in objects THEN <<q.id, "VARIANT">> ELSE <<q.id, "ORIGINAL">>
Uploaded(q) == ObjectsOf(q) \subseteq objects
\* The second transaction has not taken effect.
Uncommitted(q) == q \notin media
Ended(q) == uploading' = uploading \ {q}

PutObject(q) ==
  /\ ~Uploaded(q)
  /\ objects' = objects \cup {NextObject(q)}
  /\ UNCHANGED <<contexts, uploading, media, keyed, created, shown>>

\* Removals that fail are passed over, and an object whose upload failed may be
\* there although nobody removes it: anything may be left behind.
Removed(q) ==
  \E left \in SUBSET ((objects \cap ObjectsOf(q)) \cup {NextObject(q)}) :
    objects' = (objects \ ObjectsOf(q)) \cup left

Insert(q) ==
  /\ media' = media \cup {q}
  /\ keyed' = IF q.asked = Plain THEN keyed ELSE keyed \cup {q}

\* The request learns that its transaction took effect and answers, or the answer of
\* the commit is lost and it waits for an error it will take for a failure.
Answered(q) ==
  /\ created' = created \cup {q} /\ shown' = shown \cup {q}
  /\ Ended(q)
AnswerLost(q) == UNCHANGED <<uploading, created, shown>>

\* Mutation of CommitUpload: what the first transaction found is taken for granted.
CommitUnchecked(q) ==
  /\ Uncommitted(q) /\ Uploaded(q)
  /\ Insert(q)
  /\ Answered(q) \/ AnswerLost(q)
  /\ UNCHANGED <<contexts, objects>>
\* The second transaction, when the check still accepts the picture.
CommitUpload(q) ==
  /\ Uncommitted(q) /\ Uploaded(q)
  /\ Accepted(q.asked)
  /\ Insert(q)
  /\ Answered(q) \/ AnswerLost(q)
  /\ UNCHANGED <<contexts, objects>>

\* The second transaction finds the picture another request stored under the key.
ReplayUpload(q) ==
  /\ Uncommitted(q) /\ Uploaded(q)
  /\ \E r \in Stored(q.asked) : shown' = shown \cup {r}
  /\ Removed(q)
  /\ Ended(q)
  /\ UNCHANGED <<contexts, media, keyed, created>>

\* The catch of a request: its upload failed, or its second transaction was refused,
\* failed or seems to have failed.  The objects go even when their row is there.
AbandonUpload(q) ==
  /\ Removed(q)
  /\ Ended(q)
  /\ UNCHANGED <<contexts, media, keyed, created, shown>>

\* The process goes down and leaves what it has uploaded and stored.
UploadCrashes(q) ==
  /\ Ended(q)
  /\ UNCHANGED <<contexts, objects, media, keyed, created, shown>>

MediaNext ==
  \/ \E x \in Contexts : IssueUploadContext(x) \/ ContextExpires(x)
  \/ \E u \in Uploads, a \in InContexts \cup {Plain} : BeginUpload(u, a)
  \/ \E a \in InContexts : ReplayAtOnce(a)
  \/ \E q \in uploading :
       PutObject(q) \/ CommitUpload(q) \/ ReplayUpload(q) \/ AbandonUpload(q)
       \/ UploadCrashes(q)

MediaSpec == MediaInit /\ [][MediaNext]_mediaVars

\* Not so in this code: every stored picture can be read.  A request whose commit took
\* effect without its learning of it removes the objects of the row it has stored, and a
\* repeat under its key is then answered with a picture that cannot be read.
StoredMediaIsReadable == \A v \in media : Uploaded(v)

\* A picture that its own request answered with stays readable, whatever other uploads,
\* repeats and crashes remove; a context holds no more pictures than allowed and one for
\* each key, also when a commit's answer is lost and its request is repeated; and what a
\* buyer is told of is stored.
AnsweredMediaIsReadable ==
  /\ \A v \in created : Uploaded(v)
  /\ \A x \in Contexts : Cardinality(InContext(x)) <= MaxItems
  /\ \A v, w \in media : v.asked # Plain /\ SameKey(v.asked, w.asked) => v = w
  /\ created \subseteq media /\ shown \subseteq media
=============================================================================
