-------------------------- MODULE BuyerCareProofs --------------------------
(***************************************************************************)
(* Proofs about BuyerCare, for any number of keys, requests, contexts and  *)
(* orders.                                                                 *)
(***************************************************************************)
EXTENDS BuyerCare, FiniteSetTheorems, TLAPS

-----------------------------------------------------------------------------
(* The messages sent under a key. *)

\* A key has one row.  A row that has its response never lapses and has the one
\* message of its key; a key without such a row has none.  A request whose claim
\* still stands finds its own content in the row, whoever claimed the key before.
MsgInv ==
  /\ MsgTypeOK
  /\ \A r1, r2 \in msgRecord : r1.key = r2.key => r1 = r2
  /\ \A r \in msgRecord :
       r.claim = NoClaim => ~r.lapsed /\ written[r.key] = <<r.request>>
  /\ \A k \in MsgKeys :
       (\A r \in msgRecord : r.key = k => r.claim # NoClaim) => written[k] = <<>>
  /\ \A q \in sending, r \in msgRecord :
       q.claims /\ r.key = q.key /\ r.claim = q.id => r.request = q.content

\* What storing a row under a key leaves of the table.
LEMMA StoredRow ==
  ASSUME MsgInv, NEW k \in MsgKeys, NEW row \in MsgRow, row.key = k, Store(k, row)
  PROVE  /\ msgRecord' \subseteq MsgRow
         /\ row \in msgRecord'
         /\ \A r \in msgRecord' : r.key = k => r = row
         /\ \A r : r.key # k => (r \in msgRecord' <=> r \in msgRecord)
         /\ \A r1, r2 \in msgRecord' : r1.key = r2.key => r1 = r2
BY DEF MsgInv, MsgTypeOK, Store, RowsOf

\* A key that has a claim, or no row, has nothing written.
LEMMA NothingWritten ==
  ASSUME MsgInv, NEW k \in MsgKeys, \A r \in RowsOf(k) : r.claim # NoClaim
  PROVE  written[k] = <<>>
BY DEF MsgInv, RowsOf

\* The step that writes under a key for which nothing is written.
LEMMA WritesOnce ==
  ASSUME MsgInv, NEW k \in MsgKeys, NEW c \in Contents,
         \A r \in RowsOf(k) : r.claim # NoClaim,
         Writes(k, c)
  PROVE  /\ MessagesOnce!Run(k, c)
         /\ written'[k] = <<c>>
         /\ \A j \in MsgKeys : j # k => written'[j] = written[j]
         /\ written' \in [MsgKeys -> Seq(Contents)]
         /\ msgTold' \subseteq MsgKeys \X Contents
<1>1. written[k] = <<>>
  BY NothingWritten
<1>2. Append(<<>>, c) = <<c>> /\ <<c>> \in Seq(Contents)
  OBVIOUS
<1>3. written' = [written EXCEPT ![k] = <<c>>]
  BY <1>1, <1>2 DEF Writes
<1>4. written \in [MsgKeys -> Seq(Contents)] /\ msgTold \subseteq MsgKeys \X Contents
  BY DEF MsgInv, MsgTypeOK
<1>5. msgTold' \in {msgTold, msgTold \cup {<<k, c>>}}
  BY DEF Writes
<1> QED BY <1>1, <1>2, <1>3, <1>4, <1>5 DEF MessagesOnce!Run

\* The table after a transaction that wrote under a key.
LEMMA WrittenKeeps ==
  ASSUME MsgInv, NEW k \in MsgKeys, NEW c \in Contents,
         \A r \in RowsOf(k) : r.claim # NoClaim,
         Writes(k, c), Store(k, Done(k, c)),
         threads' \subseteq Contents, sending' \subseteq sending
  PROVE  MsgInv' /\ MessagesOnce!Run(k, c)
<1>1. /\ Done(k, c) \in MsgRow /\ Done(k, c).key = k /\ Done(k, c).claim = NoClaim
      /\ Done(k, c).request = c /\ ~Done(k, c).lapsed
  BY DEF Done, MsgRow
<1>2. /\ msgRecord' \subseteq MsgRow
      /\ Done(k, c) \in msgRecord'
      /\ \A r \in msgRecord' : r.key = k => r = Done(k, c)
      /\ \A r : r.key # k => (r \in msgRecord' <=> r \in msgRecord)
      /\ \A r1, r2 \in msgRecord' : r1.key = r2.key => r1 = r2
  BY <1>1, StoredRow
<1>3. /\ MessagesOnce!Run(k, c)
      /\ written'[k] = <<c>>
      /\ \A j \in MsgKeys : j # k => written'[j] = written[j]
      /\ written' \in [MsgKeys -> Seq(Contents)]
      /\ msgTold' \subseteq MsgKeys \X Contents
  BY WritesOnce
<1>4. sending \subseteq Sending /\ msgRecord \subseteq MsgRow
  BY DEF MsgInv, MsgTypeOK
<1>5. \A r \in msgRecord' : r.claim = NoClaim => ~r.lapsed /\ written'[r.key] = <<r.request>>
  <2> TAKE r \in msgRecord'
  <2> HAVE r.claim = NoClaim
  <2>1. CASE r.key = k
    BY <1>1, <1>2, <1>3, <2>1
  <2>2. CASE r.key # k
    <3>1. r \in msgRecord /\ r.key \in MsgKeys
      BY <1>2, <2>2 DEF MsgRow
    <3> QED BY <1>3, <2>2, <3>1 DEF MsgInv
  <2> QED BY <2>1, <2>2
<1>6. \A j \in MsgKeys :
        (\A r \in msgRecord' : r.key = j => r.claim # NoClaim) => written'[j] = <<>>
  <2> TAKE j \in MsgKeys
  <2> HAVE \A r \in msgRecord' : r.key = j => r.claim # NoClaim
  <2>1. j # k
    BY <1>1, <1>2
  <2>2. \A r \in msgRecord : r.key = j => r.claim # NoClaim
    BY <1>2, <2>1
  <2> QED BY <1>3, <2>1, <2>2 DEF MsgInv
<1>7. \A q \in sending', r \in msgRecord' :
        q.claims /\ r.key = q.key /\ r.claim = q.id => r.request = q.content
  <2> TAKE q \in sending', r \in msgRecord'
  <2> HAVE q.claims /\ r.key = q.key /\ r.claim = q.id
  <2>1. q \in sending /\ q.id # NoClaim
    BY <1>4, SendingAssumption DEF Sending
  <2>2. r \in msgRecord
    BY <1>1, <1>2, <2>1
  <2> QED BY <2>1, <2>2 DEF MsgInv
<1> QED BY <1>2, <1>3, <1>4, <1>5, <1>6, <1>7 DEF MsgInv, MsgTypeOK

LEMMA ReplaysKeeps ==
  ASSUME MsgInv, NEW k \in MsgKeys, NEW c \in Contents, Replays(k, c),
         UNCHANGED <<threads, msgRecord, written>>, sending' \subseteq sending
  PROVE  MsgInv' /\ MessagesOnce!Tell(k, c)
<1>1. written[k] = <<c>>
  BY DEF Replays, Done, MsgInv
<1>2. MessagesOnce!Tell(k, c)
  BY <1>1 DEF Replays, MessagesOnce!Tell
<1>3. msgTold' \subseteq MsgKeys \X Contents
  BY DEF Replays, MsgInv, MsgTypeOK
<1>4. MsgInv'
  BY <1>3 DEF MsgInv, MsgTypeOK
<1> QED BY <1>2, <1>4

\* A claim only replaces a claim that has lapsed, which says nothing of what was
\* written, and is of the request that makes it.
LEMMA ClaimSendKeeps ==
  ASSUME MsgInv, NEW s \in Senders, NEW k \in SendKeys, NEW c \in Contents, ClaimSend(s, k, c)
  PROVE  MsgInv' /\ UNCHANGED <<written, msgTold>>
<1> DEFINE row == [key |-> k, request |-> c, claim |-> s, lapsed |-> FALSE]
           new == [id |-> s, key |-> k, content |-> c, claims |-> TRUE]
<1>1. /\ row \in MsgRow /\ row.key = k /\ row.claim = s /\ row.request = c
      /\ k \in MsgKeys /\ s # NoClaim
  BY SendingAssumption DEF MsgRow, MsgKeys
<1>2. new \in Sending /\ new.id = s /\ new.key = k /\ new.content = c
  BY DEF Sending
<1>3. Store(k, row) /\ sending' = sending \cup {new} /\ UNCHANGED <<threads, written, msgTold>>
  BY DEF ClaimSend
<1> HIDE DEF row, new
<1>4. /\ msgRecord' \subseteq MsgRow
      /\ \A r \in msgRecord' : r.key = k => r = row
      /\ \A r : r.key # k => (r \in msgRecord' <=> r \in msgRecord)
      /\ \A r1, r2 \in msgRecord' : r1.key = r2.key => r1 = r2
  BY <1>1, <1>3, StoredRow
<1>5. \A r \in RowsOf(k) : r.claim # NoClaim
  BY DEF ClaimSend, MsgInv, RowsOf
<1>6. written[k] = <<>>
  BY <1>1, <1>5, NothingWritten
<1>7. \A r \in msgRecord' : r.claim = NoClaim => ~r.lapsed /\ written[r.key] = <<r.request>>
  <2> TAKE r \in msgRecord'
  <2> HAVE r.claim = NoClaim
  <2>1. r \in msgRecord
    BY <1>1, <1>4
  <2> QED BY <2>1 DEF MsgInv
<1>8. \A j \in MsgKeys :
        (\A r \in msgRecord' : r.key = j => r.claim # NoClaim) => written[j] = <<>>
  <2> TAKE j \in MsgKeys
  <2> HAVE \A r \in msgRecord' : r.key = j => r.claim # NoClaim
  <2>1. j # k => \A r \in msgRecord : r.key = j => r.claim # NoClaim
    BY <1>4
  <2> QED BY <1>6, <2>1 DEF MsgInv
<1>9. \A q \in sending', r \in msgRecord' :
        q.claims /\ r.key = q.key /\ r.claim = q.id => r.request = q.content
  <2> TAKE q \in sending', r \in msgRecord'
  <2> HAVE q.claims /\ r.key = q.key /\ r.claim = q.id
  <2>1. CASE r.key = k
    <3>1. r = row
      BY <1>4, <2>1
    <3>2. q.id = s
      BY <1>1, <3>1
    <3>3. q = new
      BY <1>3, <3>2 DEF ClaimSend
    <3> QED BY <1>1, <1>2, <3>1, <3>3
  <2>2. CASE r.key # k
    <3>1. r \in msgRecord /\ q \in sending
      BY <1>2, <1>3, <1>4, <2>2
    <3> QED BY <3>1 DEF MsgInv
  <2> QED BY <2>1, <2>2
<1> QED BY <1>2, <1>3, <1>4, <1>7, <1>8, <1>9 DEF MsgInv, MsgTypeOK

LEMMA ClaimLapsesKeeps ==
  ASSUME MsgInv, NEW r \in msgRecord, ClaimLapses(r)
  PROVE  MsgInv' /\ UNCHANGED <<written, msgTold>>
<1> DEFINE row == [r EXCEPT !.lapsed = TRUE]
<1>1. r \in MsgRow /\ r.key \in MsgKeys
  BY DEF MsgInv, MsgTypeOK, MsgRow
<1>2. /\ row \in MsgRow /\ row.key = r.key /\ row.claim = r.claim /\ row.request = r.request
  BY <1>1 DEF MsgRow
<1>3. Store(r.key, row) /\ UNCHANGED <<threads, sending, written, msgTold>> /\ r.claim # NoClaim
  BY DEF ClaimLapses
<1> HIDE DEF row
<1>4. /\ msgRecord' \subseteq MsgRow /\ row \in msgRecord'
      /\ \A t \in msgRecord' : t.key = r.key => t = row
      /\ \A t : t.key # r.key => (t \in msgRecord' <=> t \in msgRecord)
      /\ \A t1, t2 \in msgRecord' : t1.key = t2.key => t1 = t2
  BY <1>1, <1>2, <1>3, StoredRow
<1>5. \A t \in msgRecord' : t \in msgRecord \/ t = row
  BY <1>4
<1>6. \A t \in msgRecord' : t.claim = NoClaim => ~t.lapsed /\ written[t.key] = <<t.request>>
  BY <1>2, <1>3, <1>5 DEF MsgInv
<1>7. \A j \in MsgKeys :
        (\A t \in msgRecord' : t.key = j => t.claim # NoClaim) => written[j] = <<>>
  <2> TAKE j \in MsgKeys
  <2> HAVE \A t \in msgRecord' : t.key = j => t.claim # NoClaim
  <2>1. \A t \in msgRecord : t.key = j => t.claim # NoClaim
    <3> TAKE t \in msgRecord
    <3> HAVE t.key = j
    <3>1. t.key = r.key => t = r
      BY DEF MsgInv
    <3> QED BY <1>3, <1>4, <3>1
  <2> QED BY <2>1 DEF MsgInv
<1>8. \A q \in sending', t \in msgRecord' :
        q.claims /\ t.key = q.key /\ t.claim = q.id => t.request = q.content
  BY <1>2, <1>3, <1>5 DEF MsgInv
<1> QED BY <1>3, <1>4, <1>6, <1>7, <1>8 DEF MsgInv, MsgTypeOK

\* Giving a claim back leaves the rows that have their response.
LEMMA ReleaseSendKeeps ==
  ASSUME MsgInv, NEW q \in sending, ReleaseSend(q)
  PROVE  MsgInv' /\ UNCHANGED <<written, msgTold>>
<1>1. q.id # NoClaim
  BY SendingAssumption DEF MsgInv, MsgTypeOK, Sending
<1>2. /\ msgRecord' \subseteq msgRecord
      /\ \A r \in msgRecord : r.claim = NoClaim => r \in msgRecord'
      /\ sending' \subseteq sending /\ UNCHANGED <<threads, written, msgTold>>
  BY <1>1 DEF ReleaseSend
<1>3. \A k \in MsgKeys :
        (\A r \in msgRecord' : r.key = k => r.claim # NoClaim) => written[k] = <<>>
  BY <1>2 DEF MsgInv
<1> QED BY <1>2, <1>3 DEF MsgInv, MsgTypeOK

LEMMA MsgStepKeeps ==
  ASSUME MsgInv, MsgNext
  PROVE  MsgInv' /\ [MessagesOnce!Next]_<<written, msgTold>>
<1>0. /\ sending \subseteq Sending /\ msgRecord \subseteq MsgRow
      /\ OpenKeys \subseteq MsgKeys /\ SendKeys \subseteq MsgKeys
      /\ \A q \in sending : q.key \in SendKeys /\ q.content \in Contents /\ q.id \in Senders
  BY DEF MsgInv, MsgTypeOK, Sending, MsgKeys
<1>1. ASSUME NEW k \in OpenKeys, NEW c \in Contents, OpenThread(k, c)
      PROVE  MsgInv' /\ MessagesOnce!Run(k, c)
  <2>1. threads' \subseteq Contents /\ \A r \in RowsOf(k) : r.claim # NoClaim
    BY <1>1 DEF OpenThread, MsgInv, MsgTypeOK
  <2> QED BY <1>0, <1>1, <2>1, WrittenKeeps DEF OpenThread
<1>2. ASSUME NEW k \in OpenKeys, NEW c \in Contents, ReopenThread(k, c)
      PROVE  MsgInv' /\ MessagesOnce!Tell(k, c)
  BY <1>0, <1>2, ReplaysKeeps DEF ReopenThread
<1>3. ASSUME NEW s \in Senders, NEW k \in SendKeys, NEW c \in Contents, FindResponse(s, k, c)
      PROVE  MsgInv' /\ UNCHANGED <<written, msgTold>>
  <2> DEFINE new == [id |-> s, key |-> k, content |-> c, claims |-> FALSE]
  <2>1. new \in Sending /\ ~new.claims
    BY DEF Sending
  <2>2. sending' = sending \cup {new} /\ UNCHANGED <<threads, msgRecord, written, msgTold>>
    BY <1>3 DEF FindResponse
  <2> HIDE DEF new
  <2> QED BY <2>1, <2>2 DEF MsgInv, MsgTypeOK
<1>4. ASSUME NEW q \in sending, ReplaySend(q)
      PROVE  MsgInv' /\ MessagesOnce!Tell(q.key, q.content)
  BY <1>0, <1>4, ReplaysKeeps DEF ReplaySend
<1>5. ASSUME NEW q \in sending, CommitSend(q)
      PROVE  MsgInv' /\ MessagesOnce!Run(q.key, q.content)
  <2>1. PICK r \in RowsOf(q.key) : r.claim = q.id /\ Store(q.key, Done(q.key, r.request))
    BY <1>5 DEF CommitSend
  <2>2. r \in msgRecord /\ r.key = q.key /\ r.request = q.content
    BY <1>5, <2>1 DEF RowsOf, CommitSend, MsgInv
  <2>3. \A t \in RowsOf(q.key) : t.claim # NoClaim
    BY <1>0, <2>1, <2>2, SendingAssumption DEF RowsOf, MsgInv
  <2>4. threads' \subseteq Contents /\ sending' \subseteq sending /\ Writes(q.key, q.content)
    BY <1>5 DEF CommitSend, MsgInv, MsgTypeOK
  <2> QED BY <1>0, <2>1, <2>2, <2>3, <2>4, WrittenKeeps
<1>6. ASSUME NEW q \in sending, SenderCrashes(q)
      PROVE  MsgInv' /\ UNCHANGED <<written, msgTold>>
  BY <1>6 DEF SenderCrashes, MsgInv, MsgTypeOK
<1>7. \A k \in MsgKeys, c \in Contents :
        MessagesOnce!Run(k, c) \/ MessagesOnce!Tell(k, c) => MessagesOnce!Next
  BY DEF MessagesOnce!Next
<1> QED BY <1>0, <1>1, <1>2, <1>3, <1>4, <1>5, <1>6, <1>7, ClaimSendKeeps, ClaimLapsesKeeps,
           ReleaseSendKeeps DEF MsgNext

LEMMA MsgStays ==
  /\ CareInit => MsgInv /\ MessagesOnce!Init
  /\ MsgInv /\ [CareNext]_<<vars, msgVars, mediaVars>>
       => MsgInv' /\ [MessagesOnce!Next]_<<written, msgTold>>
<1>1. CareInit => MsgInv /\ MessagesOnce!Init
  BY DEF CareInit, MsgInit, MsgInv, MsgTypeOK, MessagesOnce!Init
<1>2. ASSUME MsgInv, [CareNext]_<<vars, msgVars, mediaVars>>
      PROVE  MsgInv' /\ [MessagesOnce!Next]_<<written, msgTold>>
  <2>1. CASE UNCHANGED msgVars
    BY <1>2, <2>1 DEF msgVars, MsgInv, MsgTypeOK
  <2>2. CASE MsgNext
    BY <1>2, <2>2, MsgStepKeeps
  <2> QED BY <1>2, <2>1, <2>2 DEF CareNext
<1> QED BY <1>1, <1>2

(* Opening a thread and sending a message take effect once for a key at most, and a
   success is told of what was sent under the key alone, whoever takes over a lapsed
   claim while the attachment is checked (claimSend and send of
   postgres-conversation.repository.ts). *)
THEOREM MessagesImplementOnce == CareSpec => MessagesAreSentOnce
BY MsgStays, PTL DEF CareSpec, MessagesAreSentOnce, MessagesOnce!Spec

-----------------------------------------------------------------------------
(* The pictures. *)

\* A request shares its media id with no other and with no row but its own, and one
\* that has answered is over, so that what a request removes is nobody else's and was
\* never answered with; the rows of the idempotency tables are those of the pictures
\* asked for in a context.
MediaInv ==
  /\ MediaTypeOK
  /\ AnsweredMediaIsReadable
  /\ IsFiniteSet(media)
  /\ keyed = {v \in media : v.asked # Plain}
  /\ created \cap uploading = {}
  /\ \A q \in uploading, v \in media : q.id = v.id => q = v
  /\ \A q, p \in uploading : q.id = p.id => q = p

LEMMA PictureInContext ==
  ASSUME NEW a \in InContexts
  PROVE  a # Plain /\ a.context \in Contexts
BY UploadAssumption DEF InContexts, Plain

\* A step that stores no picture and takes no object of an answered one away.
LEMMA NothingStored ==
  ASSUME MediaInv, UNCHANGED <<media, keyed, created>>,
         contexts' \subseteq Contexts,
         uploading' \subseteq MediaRow,
         created \cap uploading' = {},
         \A q \in uploading', v \in media : q.id = v.id => q = v,
         \A q, p \in uploading' : q.id = p.id => q = p,
         objects' \subseteq Uploads \X Objects,
         \A v \in created : ObjectsOf(v) \cap objects \subseteq objects',
         shown' \subseteq media
  PROVE  MediaInv'
<1>1. \A v \in created : Uploaded(v)'
  BY DEF MediaInv, AnsweredMediaIsReadable, Uploaded
<1>2. \A x : InContext(x)' = InContext(x)
  BY DEF InContext
<1>3. AnsweredMediaIsReadable'
  BY <1>1, <1>2 DEF MediaInv, AnsweredMediaIsReadable
<1> QED BY <1>3 DEF MediaInv, MediaTypeOK

\* What a request removes belongs to no picture that was answered with.
LEMMA RemovesItsOwn ==
  ASSUME MediaInv, NEW q \in uploading, Removed(q)
  PROVE  /\ objects' \subseteq Uploads \X Objects
         /\ \A v \in created : ObjectsOf(v) \cap objects \subseteq objects'
<1>1. PICK left \in SUBSET ((objects \cap ObjectsOf(q)) \cup {NextObject(q)}) :
        objects' = (objects \ ObjectsOf(q)) \cup left
  BY DEF Removed
<1>2. q.id \in Uploads /\ objects \subseteq Uploads \X Objects
  BY DEF MediaInv, MediaTypeOK, MediaRow
<1>3. NextObject(q) \in Uploads \X Objects
  BY <1>2 DEF NextObject, Objects
<1>4. \A v \in created : ObjectsOf(v) \cap ObjectsOf(q) = {}
  <2>1. \A v \in created : v.id # q.id
    BY DEF MediaInv, AnsweredMediaIsReadable
  <2> QED BY <2>1 DEF ObjectsOf
<1> QED BY <1>1, <1>2, <1>3, <1>4

LEMMA BeginUploadKeeps ==
  ASSUME MediaInv, NEW u \in Uploads, NEW a \in InContexts \cup {Plain}, BeginUpload(u, a)
  PROVE  MediaInv'
<1> DEFINE new == [id |-> u, asked |-> a]
<1>1. new \in MediaRow /\ new.id = u
  BY DEF MediaRow
<1>2. /\ \A q \in uploading \cup media : q.id # u
      /\ uploading' = uploading \cup {new}
      /\ UNCHANGED <<contexts, objects, media, keyed, created, shown>>
  BY DEF BeginUpload, Unseen
<1> HIDE DEF new
<1>3. shown \subseteq media /\ created \subseteq media
  BY DEF MediaInv, AnsweredMediaIsReadable
<1>4. uploading' \subseteq MediaRow
  BY <1>1, <1>2 DEF MediaInv, MediaTypeOK
<1>5. /\ \A q \in uploading', v \in media : q.id = v.id => q = v
      /\ \A q, p \in uploading' : q.id = p.id => q = p
      /\ created \cap uploading' = {}
  BY <1>1, <1>2, <1>3 DEF MediaInv
<1> QED BY <1>2, <1>3, <1>4, <1>5, NothingStored DEF MediaInv, MediaTypeOK

\* The second transaction has room for its picture, and nothing under its key.
LEMMA CommitUploadKeeps ==
  ASSUME MediaInv, NEW q \in uploading, CommitUpload(q)
  PROVE  MediaInv'
<1>1. /\ q \in MediaRow /\ q \notin media /\ Uploaded(q) /\ Accepted(q.asked)
      /\ media' = media \cup {q}
      /\ UNCHANGED <<contexts, objects>>
  BY DEF CommitUpload, Uncommitted, Insert, MediaInv, MediaTypeOK
<1>a. \/ /\ uploading' = uploading \ {q}
         /\ created' = created \cup {q} /\ shown' = shown \cup {q}
      \/ UNCHANGED <<uploading, created, shown>>
  BY DEF CommitUpload, Answered, AnswerLost, Ended
<1>2. q.asked = Plain \/ q.asked \in InContexts
  BY <1>1 DEF MediaRow
<1>3. \A v \in created' : Uploaded(v)'
  BY <1>1, <1>a DEF MediaInv, AnsweredMediaIsReadable, Uploaded
<1>4. keyed' = {v \in media' : v.asked # Plain}
  BY <1>1 DEF MediaInv, CommitUpload, Insert
<1>5. shown' \subseteq media' /\ created' \subseteq media' /\ created' \cap uploading' = {}
  BY <1>1, <1>a DEF MediaInv, AnsweredMediaIsReadable
<1>6. \A v, w \in media' : v.asked # Plain /\ SameKey(v.asked, w.asked) => v = w
  <2> SUFFICES ASSUME NEW v \in media', NEW w \in media', v.asked # Plain, SameKey(v.asked, w.asked)
               PROVE  v = w
    OBVIOUS
  <2>1. SameKey(w.asked, v.asked)
    BY DEF SameKey
  <2>2. w.asked # Plain
    <3>1. v.asked \in InContexts
      BY <1>1 DEF MediaInv, MediaTypeOK, MediaRow
    <3>2. v.asked.context \in Contexts /\ Plain.context = NoContext
      BY <3>1, PictureInContext DEF Plain
    <3> QED BY <3>2, UploadAssumption DEF SameKey
  <2>3. ASSUME NEW z \in media, z.asked # Plain, SameKey(z.asked, q.asked), q.asked # Plain PROVE FALSE
    BY <1>1, <2>3 DEF Accepted, MediaInv
  <2>4. CASE v \in media /\ w \in media
    BY <2>4 DEF MediaInv, AnsweredMediaIsReadable
  <2> QED BY <1>1, <2>1, <2>2, <2>3, <2>4
<1>7. IsFiniteSet(media')
  BY <1>1, FS_AddElement DEF MediaInv
<1>8. \A x \in Contexts : Cardinality(InContext(x)') <= MaxItems
  <2> TAKE x \in Contexts
  <2>1. Cardinality(InContext(x)) <= MaxItems
    BY DEF MediaInv, AnsweredMediaIsReadable
  <2>2. IsFiniteSet(InContext(x))
    BY FS_Subset DEF MediaInv, InContext
  <2>3. CASE q.asked.context # x
    <3>1. InContext(x)' = InContext(x)
      BY <1>1, <2>3 DEF InContext
    <3> QED BY <2>1, <3>1
  <2>4. CASE q.asked.context = x
    <3>1. q.asked # Plain
      BY <2>4, UploadAssumption DEF Plain
    <3>2. Cardinality(InContext(x)) < MaxItems
      BY <1>1, <2>4, <3>1 DEF Accepted
    <3>3. InContext(x)' = InContext(x) \cup {q} /\ q \notin InContext(x)
      BY <1>1, <2>4 DEF InContext
    <3>4. Cardinality(InContext(x)') = Cardinality(InContext(x)) + 1
      BY <2>2, <3>3, FS_AddElement
    <3>5. Cardinality(InContext(x)) \in Nat
      BY <2>2, FS_CardinalityType
    <3> QED BY <3>2, <3>4, <3>5, UploadAssumption
  <2> QED BY <2>3, <2>4
<1>9. /\ \A p \in uploading', v \in media' : p.id = v.id => p = v
      /\ \A p, r \in uploading' : p.id = r.id => p = r
  BY <1>1, <1>a DEF MediaInv
<1>10. MediaTypeOK'
  BY <1>1, <1>a, <1>4, <1>5 DEF MediaInv, MediaTypeOK
<1> QED BY <1>3, <1>4, <1>5, <1>6, <1>7, <1>8, <1>9, <1>10 DEF MediaInv, AnsweredMediaIsReadable

LEMMA MediaStepKeeps ==
  ASSUME MediaInv, MediaNext
  PROVE  MediaInv'
<1>0. /\ contexts \subseteq Contexts /\ objects \subseteq Uploads \X Objects
      /\ uploading \subseteq MediaRow /\ shown \subseteq media /\ keyed \subseteq media
      /\ created \cap uploading = {}
      /\ \A q \in uploading, v \in media : q.id = v.id => q = v
      /\ \A q, p \in uploading : q.id = p.id => q = p
  BY DEF MediaInv, MediaTypeOK, AnsweredMediaIsReadable
<1>1. ASSUME NEW x \in Contexts, IssueUploadContext(x) \/ ContextExpires(x) PROVE MediaInv'
  BY <1>0, <1>1, NothingStored DEF IssueUploadContext, ContextExpires
<1>2. ASSUME NEW a \in InContexts, ReplayAtOnce(a) PROVE MediaInv'
  BY <1>0, <1>2, NothingStored DEF ReplayAtOnce, Stored
<1>3. ASSUME NEW q \in uploading, PutObject(q) PROVE MediaInv'
  <2>1. NextObject(q) \in Uploads \X Objects
    BY <1>0 DEF NextObject, MediaRow, Objects
  <2> QED BY <1>0, <1>3, <2>1, NothingStored DEF PutObject
<1>4. ASSUME NEW q \in uploading, ReplayUpload(q) PROVE MediaInv'
  BY <1>0, <1>4, NothingStored, RemovesItsOwn DEF ReplayUpload, Ended, Stored
<1>5. ASSUME NEW q \in uploading, AbandonUpload(q) PROVE MediaInv'
  BY <1>0, <1>5, NothingStored, RemovesItsOwn DEF AbandonUpload, Ended
<1>6. ASSUME NEW q \in uploading, UploadCrashes(q) PROVE MediaInv'
  BY <1>0, <1>6, NothingStored DEF UploadCrashes, Ended
<1> QED BY <1>1, <1>2, <1>3, <1>4, <1>5, <1>6, BeginUploadKeeps, CommitUploadKeeps DEF MediaNext

LEMMA MediaAlways == CareSpec => []MediaInv
<1>1. CareInit => MediaInv
  <2> SUFFICES ASSUME CareInit PROVE MediaInv
    OBVIOUS
  <2>1. /\ contexts = {} /\ uploading = {} /\ objects = {}
        /\ media = {} /\ keyed = {} /\ created = {} /\ shown = {}
    BY DEF CareInit, MediaInit
  <2>2. \A x : InContext(x) = {}
    BY <2>1 DEF InContext
  <2>3. IsFiniteSet({}) /\ Cardinality({}) = 0
    BY FS_EmptySet
  <2>4. AnsweredMediaIsReadable
    BY <2>1, <2>2, <2>3, UploadAssumption DEF AnsweredMediaIsReadable
  <2> QED BY <2>1, <2>3, <2>4 DEF MediaInv, MediaTypeOK
<1>2. MediaInv /\ [CareNext]_<<vars, msgVars, mediaVars>> => MediaInv'
  <2> SUFFICES ASSUME MediaInv, [CareNext]_<<vars, msgVars, mediaVars>>
               PROVE  MediaInv'
    OBVIOUS
  <2>1. CASE UNCHANGED mediaVars
    BY <2>1 DEF mediaVars, MediaInv, MediaTypeOK, AnsweredMediaIsReadable, Uploaded, InContext
  <2>2. CASE MediaNext
    BY <2>2, MediaStepKeeps
  <2> QED BY <2>1, <2>2 DEF CareNext
<1> QED BY <1>1, <1>2, PTL DEF CareSpec

(* A picture that its own request answered with stays readable whatever other requests
   remove, also those that take a commit for failed which took effect; a context holds
   no more pictures than allowed and one for each key, and what a buyer is told of is
   stored (put, putPurchaseExperienceMedia and putBuyerDisputeMedia of
   postgres-minio-media-storage.ts). *)
THEOREM AnsweredMediaStayReadable == CareSpec => []AnsweredMediaIsReadable
<1>1. MediaInv => AnsweredMediaIsReadable
  BY DEF MediaInv
<1> QED BY <1>1, MediaAlways, PTL

-----------------------------------------------------------------------------
(* The settlement of an order. *)

\* The cases of CancellationAgrees for one order, as implications.
Undone(o) ==
  /\ order[o] = "PAID" =>
       /\ refund[o].status = "NONE"
       /\ fulfillment[o].status \notin {"CANCELLATION_PENDING_REFUND", "CANCELLED"}
       /\ reservation[o] = "CONSUMED"
  /\ order[o] = "CANCELLATION_PENDING_REFUND" =>
       /\ refund[o].status \in {"PENDING", "FAILED"}
       /\ fulfillment[o].status = "CANCELLATION_PENDING_REFUND"
       /\ reservation[o] = "CONSUMED"
  /\ order[o] = "CANCELLED" =>
       /\ refund[o].status = "CONFIRMED"
       /\ fulfillment[o].status = "CANCELLED"
       /\ reservation[o] = "CANCELLED"

\* An order whose timeline says that it was sent stands as sent or delivered.
StaysSent(o) ==
  ReachedAt(o, "SHIPPED") # {} => fulfillment[o].status \in {"SHIPPED", "DELIVERED"}

\* The timeline speaks of the past.
IsPast(o) == \A i \in DOMAIN timeline[o] : timeline[o][i].at <= now

SettleInv ==
  /\ SettlementTypeOK
  /\ \A o \in Orders : Undone(o) /\ StaysSent(o) /\ IsPast(o)
  /\ \A r \in Requests : advancing[r] # Idle => advancing[r].at <= now

LEMMA UndoneTogether == SettleInv => CancellationAgrees
BY DEF SettleInv, SettlementTypeOK, OrderStatus, Undone, CancellationAgrees

\* A timeline only grows.
Grows(o) ==
  /\ Len(timeline[o]) <= Len(timeline'[o])
  /\ \A i \in 1..Len(timeline[o]) : timeline'[o][i] = timeline[o][i]

LEMMA MovesOn ==
  ASSUME SettlementTypeOK, NEW o \in Orders, NEW status \in FulfillmentStatus, NEW at \in Nat,
         MovesTo(o, status, at)
  PROVE  /\ fulfillment' \in [Orders -> [status: FulfillmentStatus \cup {"NONE"}, version: Nat]]
         /\ timeline' \in [Orders -> Seq(Entry)]
         /\ fulfillment'[o].status = status
         /\ Len(timeline'[o]) = Len(timeline[o]) + 1
         /\ \A i \in 1..Len(timeline[o]) : timeline'[o][i] = timeline[o][i]
         /\ timeline'[o][Len(timeline[o]) + 1] = [status |-> status, at |-> at]
         /\ \A p \in Orders : p # o => fulfillment'[p] = fulfillment[p] /\ timeline'[p] = timeline[p]
<1> DEFINE row == [status |-> status, version |-> fulfillment[o].version + 1]
           new == [status |-> status, at |-> at]
<1>1. /\ fulfillment \in [Orders -> [status: FulfillmentStatus \cup {"NONE"}, version: Nat]]
      /\ timeline \in [Orders -> Seq(Entry)]
  BY DEF SettlementTypeOK
<1>2. row \in [status: FulfillmentStatus \cup {"NONE"}, version: Nat] /\ row.status = status
  BY <1>1
<1>3. new \in Entry
  BY DEF Entry
<1>4. fulfillment' = [fulfillment EXCEPT ![o] = row]
  BY DEF MovesTo
<1>5. timeline' = [timeline EXCEPT ![o] = Append(timeline[o], new)]
  BY DEF MovesTo
<1> HIDE DEF row
<1>6. timeline[o] \in Seq(Entry)
  BY <1>1
<1>7. /\ Append(timeline[o], new) \in Seq(Entry)
      /\ Len(Append(timeline[o], new)) = Len(timeline[o]) + 1
      /\ \A i \in 1..Len(timeline[o]) : Append(timeline[o], new)[i] = timeline[o][i]
      /\ Append(timeline[o], new)[Len(timeline[o]) + 1] = new
  <2> HIDE DEF new
  <2> QED BY <1>3, <1>6
<1> QED BY <1>1, <1>2, <1>4, <1>5, <1>7

\* The statuses that an order has reached after one more entry.
LEMMA ReachedMoves ==
  ASSUME SettlementTypeOK, NEW o \in Orders, NEW status \in FulfillmentStatus, NEW at \in Nat,
         MovesTo(o, status, at)
  PROVE  /\ \A s : s # status => ReachedAt(o, s)' = ReachedAt(o, s)
         /\ ReachedAt(o, status)' = ReachedAt(o, status) \cup {at}
         /\ \A p \in Orders : \A s : p # o => ReachedAt(p, s)' = ReachedAt(p, s)
<1>1. /\ Len(timeline'[o]) = Len(timeline[o]) + 1
      /\ \A i \in 1..Len(timeline[o]) : timeline'[o][i] = timeline[o][i]
      /\ timeline'[o][Len(timeline[o]) + 1] = [status |-> status, at |-> at]
      /\ \A p \in Orders : p # o => timeline'[p] = timeline[p]
      /\ timeline[o] \in Seq(Entry) /\ timeline'[o] \in Seq(Entry)
  BY MovesOn DEF SettlementTypeOK
<1>2. /\ DOMAIN timeline[o] = 1..Len(timeline[o]) /\ Len(timeline[o]) \in Nat
      /\ DOMAIN timeline'[o] = 1..(Len(timeline[o]) + 1)
  BY <1>1
<1>3. DOMAIN timeline'[o] = DOMAIN timeline[o] \cup {Len(timeline[o]) + 1}
  BY <1>2
<1>4. /\ [status |-> status, at |-> at].status = status /\ [status |-> status, at |-> at].at = at
  OBVIOUS
<1>5. \A p \in Orders : \A s : p # o => ReachedAt(p, s)' = ReachedAt(p, s)
  BY <1>1 DEF ReachedAt
<1>6. \A s, x : x \in ReachedAt(o, s)' <=>
          x \in ReachedAt(o, s) \/ (s = status /\ x = at)
  BY <1>1, <1>2, <1>3, <1>4 DEF ReachedAt
<1>7. \A s : s # status => ReachedAt(o, s)' = ReachedAt(o, s)
  <2> TAKE s
  <2> HAVE s # status
  <2>1. \A x : x \in ReachedAt(o, s)' <=> x \in ReachedAt(o, s)
    BY <1>6
  <2> QED BY <2>1
<1>8. ReachedAt(o, status)' = ReachedAt(o, status) \cup {at}
  <2>1. \A x : x \in ReachedAt(o, status)' <=> x \in ReachedAt(o, status) \cup {at}
    BY <1>6
  <2> QED BY <2>1
<1> QED BY <1>5, <1>7, <1>8

\* The types of what no move of the timeline touches.
RestTypeOK ==
  /\ order \in [Orders -> OrderStatus]
  /\ completed \in [Orders -> [Keys -> FulfillmentStatus \cup {"NONE"}]]
  /\ advancing \in [Requests -> Advance \cup {Idle}]
  /\ refund \in [Orders -> [status: RefundStatus, version: Nat]]
  /\ results \in [Orders -> SUBSET ProviderEvents]
  /\ reservation \in [Orders -> {"CONSUMED", "CANCELLED"}]
  /\ onHand \in Nat

LEMMA AllGrow == UNCHANGED timeline => \A o : Grows(o)
BY DEF Grows

\* A step that moves the fulfillment of one order, and whatever else of that order.
LEMMA MovedKeeps ==
  ASSUME SettleInv, NEW o \in Orders, NEW status \in FulfillmentStatus, NEW at \in Nat,
         MovesTo(o, status, at), at <= now, now' = now,
         \/ status \in {"SHIPPED", "DELIVERED"}
         \/ fulfillment[o].status \notin {"SHIPPED", "DELIVERED"},
         RestTypeOK',
         fulfillment'[o].status = status => Undone(o)',
         \A p \in Orders : p # o => /\ order'[p] = order[p] /\ refund'[p] = refund[p]
                                    /\ reservation'[p] = reservation[p],
         \A r \in Requests : advancing'[r] = advancing[r] \/ advancing'[r] = Idle
  PROVE  SettleInv' /\ \A p \in Orders : Grows(p)
<1>1. /\ SettlementTypeOK
      /\ \A p \in Orders : Undone(p) /\ StaysSent(p) /\ IsPast(p)
      /\ \A r \in Requests : advancing[r] # Idle => advancing[r].at <= now
  BY DEF SettleInv
<1>2. /\ fulfillment' \in [Orders -> [status: FulfillmentStatus \cup {"NONE"}, version: Nat]]
      /\ timeline' \in [Orders -> Seq(Entry)]
      /\ fulfillment'[o].status = status
      /\ Len(timeline'[o]) = Len(timeline[o]) + 1
      /\ \A i \in 1..Len(timeline[o]) : timeline'[o][i] = timeline[o][i]
      /\ timeline'[o][Len(timeline[o]) + 1] = [status |-> status, at |-> at]
      /\ \A p \in Orders : p # o => fulfillment'[p] = fulfillment[p] /\ timeline'[p] = timeline[p]
  BY <1>1, MovesOn
<1>3. SettlementTypeOK'
  BY <1>1, <1>2 DEF RestTypeOK, SettlementTypeOK
<1>4. ASSUME NEW p \in Orders PROVE Undone(p)'
  BY <1>1, <1>2 DEF Undone
<1>5. ASSUME NEW p \in Orders PROVE StaysSent(p)'
  <2>1. CASE p # o
    <3>1. ReachedAt(p, "SHIPPED")' = ReachedAt(p, "SHIPPED")
      BY <1>1, <2>1, ReachedMoves
    <3>2. fulfillment'[p] = fulfillment[p]
      BY <1>2, <2>1
    <3> QED BY <1>1, <3>1, <3>2 DEF StaysSent
  <2>2. CASE p = o /\ status \notin {"SHIPPED", "DELIVERED"}
    <3>1. ReachedAt(o, "SHIPPED")' = ReachedAt(o, "SHIPPED")
      BY <1>1, <2>2, ReachedMoves
    <3>2. ReachedAt(o, "SHIPPED") = {}
      BY <1>1, <2>2 DEF StaysSent
    <3> QED BY <2>2, <3>1, <3>2 DEF StaysSent
  <2>3. CASE p = o /\ status \in {"SHIPPED", "DELIVERED"}
    BY <1>2, <2>3 DEF StaysSent
  <2> QED BY <2>1, <2>2, <2>3
<1>6. ASSUME NEW p \in Orders PROVE IsPast(p)'
  <2>1. CASE p # o
    BY <1>1, <1>2, <2>1 DEF IsPast
  <2>2. CASE p = o
    <3>1. /\ DOMAIN timeline'[o] = 1..(Len(timeline[o]) + 1)
          /\ DOMAIN timeline[o] = 1..Len(timeline[o]) /\ Len(timeline[o]) \in Nat
      BY <1>1, <1>2 DEF SettlementTypeOK
    <3>2. \A i \in 1..Len(timeline[o]) : timeline[o][i].at <= now
      BY <1>1, <3>1 DEF IsPast
    <3>3. \A i \in DOMAIN timeline'[o] : i \in 1..Len(timeline[o]) \/ i = Len(timeline[o]) + 1
      BY <3>1
    <3>4. timeline'[o][Len(timeline[o]) + 1].at = at
      BY <1>2
    <3> QED BY <1>2, <2>2, <3>2, <3>3, <3>4 DEF IsPast
  <2> QED BY <2>1, <2>2
<1>7. ASSUME NEW p \in Orders PROVE Grows(p)
  <2>1. timeline[p] \in Seq(Entry) /\ Len(timeline[p]) \in Nat
    BY <1>1 DEF SettlementTypeOK
  <2> QED BY <1>2, <2>1 DEF Grows
<1> QED BY <1>1, <1>3, <1>4, <1>5, <1>6, <1>7 DEF SettleInv

\* A step that moves no fulfillment.
LEMMA StandingKeeps ==
  ASSUME SettleInv, UNCHANGED <<fulfillment, timeline>>, now' \in Nat, now <= now', RestTypeOK',
         \A p \in Orders : Undone(p)',
         \A r \in Requests : advancing'[r] # Idle /\ advancing'[r] # advancing[r] => advancing'[r].at <= now'
  PROVE  SettleInv' /\ \A p \in Orders : Grows(p)
<1>1. SettlementTypeOK /\ now \in Nat /\ \A p \in Orders : timeline[p] \in Seq(Entry)
  BY DEF SettleInv, SettlementTypeOK
<1>2. SettlementTypeOK'
  BY <1>1 DEF RestTypeOK, SettlementTypeOK
<1>3. ASSUME NEW p \in Orders PROVE StaysSent(p)' /\ IsPast(p)'
  <2>1. ReachedAt(p, "SHIPPED")' = ReachedAt(p, "SHIPPED")
    BY DEF ReachedAt
  <2>2. StaysSent(p)'
    BY <2>1 DEF SettleInv, StaysSent
  <2>3. \A i \in DOMAIN timeline[p] : timeline[p][i].at \in Nat /\ timeline[p][i].at <= now
    <3>1. \A i \in DOMAIN timeline[p] : timeline[p][i] \in Entry
      BY <1>1
    <3>2. \A e \in Entry : e.at \in Nat
      BY DEF Entry
    <3> QED BY <3>1, <3>2 DEF SettleInv, IsPast
  <2>4. IsPast(p)'
    BY <1>1, <2>3 DEF IsPast
  <2> QED BY <2>2, <2>4
<1>4. ASSUME NEW r \in Requests, advancing'[r] # Idle PROVE advancing'[r].at <= now'
  <2>1. CASE advancing'[r] = advancing[r]
    <3>1. advancing[r].at \in Nat /\ advancing[r].at <= now
      BY <1>1, <1>4, <2>1 DEF SettleInv, SettlementTypeOK, Advance
    <3> QED BY <1>1, <2>1, <3>1
  <2> QED BY <1>4, <2>1
<1> QED BY <1>2, <1>3, <1>4, AllGrow DEF SettleInv

LEMMA SettlementStepKeeps ==
  ASSUME SettleInv, SettlementNext
  PROVE  /\ SettleInv' /\ now <= now'
         /\ \A p \in Orders : Grows(p)
<1>1. /\ SettlementTypeOK /\ now \in Nat
      /\ \A p \in Orders : Undone(p) /\ StaysSent(p) /\ IsPast(p)
      /\ \A r \in Requests : advancing[r] # Idle => advancing[r].at <= now
      /\ \A p \in Orders : order[p] \in OrderStatus
  BY DEF SettleInv, SettlementTypeOK
<1>2. ASSUME NEW o \in Orders, ProjectActionableOrder(o) PROVE SettleInv' /\ \A p \in Orders : Grows(p)
  <2>1. /\ UNCHANGED <<now, order, completed, advancing, refund, results, reservation, onHand>>
        /\ fulfillment[o].status = "NONE" /\ MovesTo(o, "ACTION_REQUIRED", 0)
    BY <1>2 DEF ProjectActionableOrder
  <2>2. order[o] = "PAID"
    BY <1>1, <2>1 DEF Undone, OrderStatus
  <2>3. fulfillment'[o].status = "ACTION_REQUIRED" => Undone(o)'
    BY <1>1, <2>1, <2>2 DEF Undone
  <2>4. RestTypeOK'
    BY <1>1, <2>1 DEF RestTypeOK, SettlementTypeOK
  <2>5. "ACTION_REQUIRED" \in FulfillmentStatus
    BY DEF FulfillmentStatus
  <2> QED BY <1>1, <2>1, <2>3, <2>4, <2>5, MovedKeeps
<1>3. ASSUME NEW o \in Orders, RequestRefund(o) PROVE SettleInv' /\ \A p \in Orders : Grows(p)
  <2> DEFINE row == [status |-> "PENDING", version |-> 1]
  <2>1. /\ UNCHANGED <<now, completed, advancing, results, reservation, onHand>>
        /\ order[o] = "PAID" /\ fulfillment[o].status \in Cancellable
        /\ order' = [order EXCEPT ![o] = "CANCELLATION_PENDING_REFUND"]
        /\ refund' = [refund EXCEPT ![o] = row]
    BY <1>3 DEF RequestRefund, BeginCancellation
  <2>2. row \in [status: RefundStatus, version: Nat] /\ row.status = "PENDING"
    BY DEF RefundStatus
  <2> HIDE DEF row
  <2>3. /\ fulfillment[o].status \notin {"CANCELLATION_PENDING_REFUND", "CANCELLED", "SHIPPED", "DELIVERED"}
        /\ reservation[o] = "CONSUMED"
    BY <1>1, <2>1 DEF Undone, Cancellable
  <2>4. MovesTo(o, "CANCELLATION_PENDING_REFUND", 0)
    BY <1>3, <2>3 DEF RequestRefund, BeginCancellation
  <2>5. /\ order'[o] = "CANCELLATION_PENDING_REFUND" /\ refund'[o].status = "PENDING"
        /\ \A p \in Orders : p # o => order'[p] = order[p] /\ refund'[p] = refund[p]
    BY <1>1, <2>1, <2>2 DEF SettlementTypeOK
  <2>6. RestTypeOK'
    <3>1. order' \in [Orders -> OrderStatus]
      BY <1>1, <2>1 DEF SettlementTypeOK, OrderStatus
    <3>2. refund' \in [Orders -> [status: RefundStatus, version: Nat]]
      BY <1>1, <2>1, <2>2 DEF SettlementTypeOK
    <3> QED BY <1>1, <2>1, <3>1, <3>2 DEF RestTypeOK, SettlementTypeOK
  <2>7. fulfillment'[o].status = "CANCELLATION_PENDING_REFUND" => Undone(o)'
    BY <2>1, <2>3, <2>5 DEF Undone
  <2>8. "CANCELLATION_PENDING_REFUND" \in FulfillmentStatus
    BY DEF FulfillmentStatus
  <2> QED BY <1>1, <2>1, <2>3, <2>4, <2>5, <2>6, <2>7, <2>8, MovedKeeps
<1>4. ASSUME NEW o \in Orders, NEW e \in ProviderEvents, RecordResult(o, e)
      PROVE  SettleInv' /\ \A p \in Orders : Grows(p)
  <2> DEFINE row == [status |-> ResultOf[e], version |-> refund[o].version + 1]
  <2>1. /\ UNCHANGED <<now, completed, advancing>>
        /\ order[o] = "CANCELLATION_PENDING_REFUND"
        /\ refund' = [refund EXCEPT ![o] = row]
        /\ results' = [results EXCEPT ![o] = @ \cup {e}]
    BY <1>4 DEF RecordResult
  <2>2. row \in [status: RefundStatus, version: Nat] /\ row.status = ResultOf[e]
        /\ ResultOf[e] \in {"FAILED", "CONFIRMED"}
    BY <1>1, SettlementAssumption DEF RefundStatus, SettlementTypeOK
  <2> HIDE DEF row
  <2>3. /\ refund'[o].status = ResultOf[e]
        /\ \A p \in Orders : p # o => refund'[p] = refund[p]
        /\ refund' \in [Orders -> [status: RefundStatus, version: Nat]]
        /\ results' \in [Orders -> SUBSET ProviderEvents]
    BY <1>1, <2>1, <2>2 DEF SettlementTypeOK
  <2>4. fulfillment[o].status = "CANCELLATION_PENDING_REFUND" /\ reservation[o] = "CONSUMED"
    BY <1>1, <2>1 DEF Undone
  <2>5. CASE ResultOf[e] # "CONFIRMED"
    <3>1. UNCHANGED <<order, fulfillment, timeline, reservation, onHand>> /\ ResultOf[e] = "FAILED"
      BY <1>4, <2>2, <2>5 DEF RecordResult
    <3>2. \A p \in Orders : Undone(p)'
      BY <1>1, <2>1, <2>3, <3>1 DEF Undone
    <3>3. RestTypeOK'
      BY <1>1, <2>1, <2>3, <3>1 DEF RestTypeOK, SettlementTypeOK
    <3> QED BY <1>1, <2>1, <3>1, <3>2, <3>3, StandingKeeps
  <2>6. CASE ResultOf[e] = "CONFIRMED"
    <3>1. /\ MovesTo(o, "CANCELLED", 0)
          /\ reservation' = [reservation EXCEPT ![o] = "CANCELLED"]
          /\ onHand' = onHand + Quantity[o]
          /\ order' = [order EXCEPT ![o] = "CANCELLED"]
      BY <1>4, <2>4, <2>6 DEF RecordResult, Cancel, CompleteCancellation, RestoreReservation
    <3>2. /\ order'[o] = "CANCELLED" /\ reservation'[o] = "CANCELLED"
          /\ \A p \in Orders : p # o => order'[p] = order[p] /\ reservation'[p] = reservation[p]
          /\ order' \in [Orders -> OrderStatus]
          /\ reservation' \in [Orders -> {"CONSUMED", "CANCELLED"}]
      BY <1>1, <3>1 DEF SettlementTypeOK, OrderStatus
    <3>3. onHand' \in Nat
      <4>1. onHand \in Nat /\ Quantity[o] \in Nat
        BY <1>1, SettlementAssumption DEF SettlementTypeOK
      <4> QED BY <3>1, <4>1
    <3>4. RestTypeOK'
      BY <1>1, <2>1, <2>3, <3>2, <3>3 DEF RestTypeOK, SettlementTypeOK
    <3>5. fulfillment'[o].status = "CANCELLED" => Undone(o)'
      BY <2>3, <2>6, <3>2 DEF Undone
    <3>6. "CANCELLED" \in FulfillmentStatus
      BY DEF FulfillmentStatus
    <3> QED BY <1>1, <2>1, <2>3, <2>4, <3>1, <3>2, <3>4, <3>5, <3>6, MovedKeeps
  <2> QED BY <2>5, <2>6
<1>5. ASSUME NEW r \in Requests, NEW o \in Orders, NEW k \in Keys, BeginAdvance(r, o, k)
      PROVE  SettleInv' /\ \A p \in Orders : Grows(p)
  <2> DEFINE new == [phase |-> "CHECKED", order |-> o, key |-> k,
                     expected |-> fulfillment[o].status, at |-> now]
  <2>1. /\ UNCHANGED <<now, order, fulfillment, timeline, completed, refund, results, reservation, onHand>>
        /\ advancing' = [advancing EXCEPT ![r] = new]
    BY <1>5 DEF BeginAdvance
  <2>2. new \in Advance /\ new.at = now
    BY <1>1, <1>5 DEF BeginAdvance, Advance
  <2> HIDE DEF new
  <2>3. /\ advancing' \in [Requests -> Advance \cup {Idle}]
        /\ \A s \in Requests : s # r => advancing'[s] = advancing[s]
        /\ advancing'[r] = new
    BY <1>1, <2>1, <2>2 DEF SettlementTypeOK
  <2>4. RestTypeOK' /\ \A p \in Orders : Undone(p)'
    BY <1>1, <2>1, <2>3 DEF RestTypeOK, SettlementTypeOK, Undone
  <2>5. \A s \in Requests : advancing'[s] # Idle /\ advancing'[s] # advancing[s] => advancing'[s].at <= now'
    BY <1>1, <2>1, <2>2, <2>3
  <2> QED BY <1>1, <2>1, <2>4, <2>5, StandingKeeps
<1>6. ASSUME NEW r \in Requests, CommitAdvance(r) PROVE SettleInv' /\ \A p \in Orders : Grows(p)
  <2>1. PICK a : a = advancing[r]
    OBVIOUS
  <2>2. a \in Advance /\ a.at <= now /\ a.order \in Orders /\ a.at \in Nat /\ a.key \in Keys
    BY <1>1, <1>6, <2>1 DEF CommitAdvance, SettlementTypeOK, Advance
  <2>3. a.expected \in {"ACTION_REQUIRED", "PREPARING", "SHIPPED"}
    BY <2>2 DEF Advance, NextStatus
  <2>4. PICK status : status = NextStatus[a.expected]
    OBVIOUS
  <2>5. /\ status \in {"PREPARING", "SHIPPED", "DELIVERED"} /\ status \in FulfillmentStatus
        /\ status = "PREPARING" => a.expected = "ACTION_REQUIRED"
    BY <2>3, <2>4 DEF NextStatus, FulfillmentStatus
  <2>6. /\ UNCHANGED <<now, order, refund, results, reservation, onHand>>
        /\ fulfillment[a.order].status = a.expected
        /\ MovesTo(a.order, status, a.at)
        /\ completed' = [completed EXCEPT ![a.order][a.key] = status]
        /\ advancing' = [advancing EXCEPT ![r] = Idle]
    BY <1>6, <2>1, <2>4 DEF CommitAdvance
  <2>7. order[a.order] = "PAID"
    BY <1>1, <2>2, <2>3, <2>6 DEF Undone, OrderStatus
  <2>8. fulfillment'[a.order].status = status => Undone(a.order)'
    BY <1>1, <2>2, <2>5, <2>6, <2>7 DEF Undone
  <2>9. RestTypeOK'
    <3>1. advancing' \in [Requests -> Advance \cup {Idle}]
      BY <1>1, <2>6 DEF SettlementTypeOK
    <3>2. completed' \in [Orders -> [Keys -> FulfillmentStatus \cup {"NONE"}]]
      BY <1>1, <2>2, <2>5, <2>6 DEF SettlementTypeOK
    <3> QED BY <1>1, <2>6, <3>1, <3>2 DEF RestTypeOK, SettlementTypeOK
  <2>10. \A s \in Requests : advancing'[s] = advancing[s] \/ advancing'[s] = Idle
    BY <1>1, <2>6 DEF SettlementTypeOK
  <2> QED BY <1>1, <2>2, <2>3, <2>5, <2>6, <2>8, <2>9, <2>10, MovedKeeps
<1>7. ASSUME NEW r \in Requests, AbandonAdvance(r) PROVE SettleInv' /\ \A p \in Orders : Grows(p)
  <2>1. /\ UNCHANGED <<now, order, fulfillment, timeline, completed, refund, results, reservation, onHand>>
        /\ advancing' = [advancing EXCEPT ![r] = Idle]
    BY <1>7 DEF AbandonAdvance
  <2>2. /\ advancing' \in [Requests -> Advance \cup {Idle}]
        /\ \A s \in Requests : advancing'[s] = advancing[s] \/ advancing'[s] = Idle
    BY <1>1, <2>1 DEF SettlementTypeOK
  <2>3. RestTypeOK' /\ \A p \in Orders : Undone(p)'
    BY <1>1, <2>1, <2>2 DEF RestTypeOK, SettlementTypeOK, Undone
  <2> QED BY <1>1, <2>1, <2>2, <2>3, StandingKeeps
<1>8. ASSUME TimePasses PROVE SettleInv' /\ \A p \in Orders : Grows(p)
  <2>1. /\ UNCHANGED <<order, fulfillment, timeline, completed, advancing, refund, results, reservation, onHand>>
        /\ now' = now + 1
    BY <1>8 DEF TimePasses
  <2>2. RestTypeOK' /\ \A p \in Orders : Undone(p)'
    BY <1>1, <2>1 DEF RestTypeOK, SettlementTypeOK, Undone
  <2> QED BY <1>1, <2>1, <2>2, StandingKeeps
<1>9. now <= now'
  <2>1. now' = now \/ now' = now + 1
    BY DEF SettlementNext, ProjectActionableOrder, RequestRefund, RecordResult, BeginAdvance,
       CommitAdvance, AbandonAdvance, TimePasses
  <2> QED BY <1>1, <2>1
<1> QED BY <1>2, <1>3, <1>4, <1>5, <1>6, <1>7, <1>8, <1>9 DEF SettlementNext

-----------------------------------------------------------------------------
(* The outcome of an order. *)

\* One order's outcome changes, and nobody else's.
LEMMA OutcomeMoves ==
  ASSUME NEW o \in Orders, NEW x, Outcome(o)' = x,
         \A p \in Orders : p # o => Outcome(p)' = Outcome(p)
  PROVE  [p \in Orders |-> Outcome(p)]' = [[p \in Orders |-> Outcome(p)] EXCEPT ![o] = x]
OBVIOUS

\* Only these differ between one outcome and another.
LEMMA OutcomeStands ==
  ASSUME NEW p \in Orders, order'[p] = order[p], fulfillment'[p] = fulfillment[p]
  PROVE  Outcome(p)' = Outcome(p)
BY DEF Outcome

LEMMA OutcomeStep ==
  ASSUME SettleInv, SettlementNext
  PROVE  [Promise!Next]_<<[o \in Orders |-> Outcome(o)], onHand - InitialOnHand>>
<1> DEFINE Goal == [Promise!Next]_<<[o \in Orders |-> Outcome(o)], onHand - InitialOnHand>>
<1>1. /\ SettlementTypeOK
      /\ \A p \in Orders : Undone(p)
      /\ \A p \in Orders : order[p] \in OrderStatus
  BY DEF SettleInv, SettlementTypeOK
<1>2. ASSUME \A p \in Orders : Outcome(p)' = Outcome(p), UNCHANGED onHand PROVE Goal
  BY <1>2
<1>3. ASSUME NEW o \in Orders, ProjectActionableOrder(o) PROVE Goal
  <2>1. /\ UNCHANGED <<order, onHand>>
        /\ fulfillment[o].status = "NONE" /\ fulfillment'[o].status = "ACTION_REQUIRED"
        /\ \A p \in Orders : p # o => fulfillment'[p] = fulfillment[p]
    BY <1>1, <1>3, MovesOn DEF ProjectActionableOrder, FulfillmentStatus
  <2>2. Outcome(o)' = Outcome(o)
    BY <2>1 DEF Outcome
  <2> QED BY <1>2, <2>1, <2>2, OutcomeStands
<1>4. ASSUME NEW o \in Orders, RequestRefund(o) PROVE Goal
  <2>1. /\ order[o] = "PAID" /\ order' = [order EXCEPT ![o] = "CANCELLATION_PENDING_REFUND"]
        /\ UNCHANGED onHand /\ fulfillment[o].status \in {"ACTION_REQUIRED", "PREPARING"}
    BY <1>1, <1>4 DEF RequestRefund, BeginCancellation, Cancellable, Undone
  <2>2. MovesTo(o, "CANCELLATION_PENDING_REFUND", 0)
    BY <1>4, <2>1 DEF RequestRefund, BeginCancellation
  <2>3. /\ order'[o] = "CANCELLATION_PENDING_REFUND"
        /\ \A p \in Orders : p # o => order'[p] = order[p] /\ fulfillment'[p] = fulfillment[p]
    BY <1>1, <2>1, <2>2, MovesOn DEF SettlementTypeOK, FulfillmentStatus
  <2>4. Outcome(o) = "OPEN" /\ Outcome(o)' = "CANCELLING"
    BY <2>1, <2>3 DEF Outcome
  <2>5. Promise!GiveUp(o)
    BY <2>1, <2>3, <2>4, OutcomeMoves, OutcomeStands DEF Promise!GiveUp
  <2> QED BY <2>5 DEF Promise!Next
<1>5. ASSUME NEW o \in Orders, NEW e \in ProviderEvents, RecordResult(o, e) PROVE Goal
  <2>1. /\ order[o] = "CANCELLATION_PENDING_REFUND" /\ reservation[o] = "CONSUMED"
        /\ fulfillment[o].status = "CANCELLATION_PENDING_REFUND"
    BY <1>1, <1>5 DEF RecordResult, Undone
  <2>2. CASE ResultOf[e] # "CONFIRMED"
    BY <1>2, <1>5, <2>2, OutcomeStands DEF RecordResult
  <2>3. CASE ResultOf[e] = "CONFIRMED"
    <3>1. /\ MovesTo(o, "CANCELLED", 0)
          /\ onHand' = onHand + Quantity[o]
          /\ order' = [order EXCEPT ![o] = "CANCELLED"]
      BY <1>5, <2>1, <2>3 DEF RecordResult, Cancel, CompleteCancellation, RestoreReservation
    <3>2. /\ order'[o] = "CANCELLED"
          /\ \A p \in Orders : p # o => order'[p] = order[p] /\ fulfillment'[p] = fulfillment[p]
      BY <1>1, <3>1, MovesOn DEF SettlementTypeOK, FulfillmentStatus
    <3>3. Outcome(o) = "CANCELLING" /\ Outcome(o)' = "CANCELLED"
      BY <2>1, <3>2 DEF Outcome
    <3>4. onHand' - InitialOnHand = (onHand - InitialOnHand) + Quantity[o]
      <4>1. onHand \in Nat /\ Quantity[o] \in Nat /\ InitialOnHand \in Nat
        BY <1>1, SettlementAssumption DEF SettlementTypeOK
      <4> QED BY <3>1, <4>1
    <3>5. Promise!PayBack(o)
      BY <3>2, <3>3, <3>4, OutcomeMoves, OutcomeStands DEF Promise!PayBack
    <3> QED BY <3>5 DEF Promise!Next
  <2> QED BY <2>2, <2>3
<1>6. ASSUME NEW r \in Requests, CommitAdvance(r) PROVE Goal
  <2>1. PICK a : a = advancing[r]
    OBVIOUS
  <2>2. a \in Advance /\ a.order \in Orders /\ a.at \in Nat
    BY <1>1, <1>6, <2>1 DEF CommitAdvance, SettlementTypeOK, Advance
  <2>3. a.expected \in {"ACTION_REQUIRED", "PREPARING", "SHIPPED"}
    BY <2>2 DEF Advance, NextStatus
  <2>4. PICK status : status = NextStatus[a.expected]
    OBVIOUS
  <2>5. /\ a.expected = "ACTION_REQUIRED" => status = "PREPARING"
        /\ a.expected = "PREPARING" => status = "SHIPPED"
        /\ a.expected = "SHIPPED" => status = "DELIVERED"
        /\ status \in FulfillmentStatus
    BY <2>3, <2>4 DEF NextStatus, FulfillmentStatus
  <2>6. MovesTo(a.order, status, a.at)
    BY <1>6, <2>1, <2>4 DEF CommitAdvance
  <2>7. /\ UNCHANGED <<order, onHand>> /\ fulfillment[a.order].status = a.expected
        /\ fulfillment'[a.order].status = status
        /\ \A p \in Orders : p # a.order => fulfillment'[p] = fulfillment[p]
    <3>1. UNCHANGED <<order, onHand>> /\ fulfillment[a.order].status = a.expected
      BY <1>6, <2>1 DEF CommitAdvance
    <3> QED BY <1>1, <2>2, <2>5, <2>6, <3>1, MovesOn
  <2>8. order[a.order] = "PAID"
    BY <1>1, <2>2, <2>3, <2>7 DEF Undone, OrderStatus
  <2>9. \A p \in Orders : p # a.order => Outcome(p)' = Outcome(p)
    BY <2>7, OutcomeStands
  <2>10. CASE a.expected = "ACTION_REQUIRED"
    <3>1. fulfillment'[a.order].status = "PREPARING"
      BY <2>7, <2>5, <2>10
    <3>2. Outcome(a.order)' = Outcome(a.order)
      BY <2>7, <2>10, <3>1 DEF Outcome
    <3> QED BY <1>2, <2>7, <2>9, <3>2
  <2>11. CASE a.expected = "PREPARING"
    <3>1. fulfillment'[a.order].status = "SHIPPED"
      BY <2>7, <2>5, <2>11
    <3>2. Outcome(a.order) = "OPEN" /\ Outcome(a.order)' = "SENT"
      BY <2>7, <2>8, <2>11, <3>1 DEF Outcome
    <3>3. Promise!Send(a.order)
      BY <2>2, <2>7, <2>9, <3>2, OutcomeMoves DEF Promise!Send
    <3> QED BY <2>2, <3>3 DEF Promise!Next
  <2>12. CASE a.expected = "SHIPPED"
    <3>1. fulfillment'[a.order].status = "DELIVERED"
      BY <2>7, <2>5, <2>12
    <3>2. Outcome(a.order) = "SENT" /\ Outcome(a.order)' = "DELIVERED"
      BY <2>7, <2>8, <2>12, <3>1 DEF Outcome
    <3>3. Promise!Arrive(a.order)
      BY <2>2, <2>7, <2>9, <3>2, OutcomeMoves DEF Promise!Arrive
    <3> QED BY <2>2, <3>3 DEF Promise!Next
  <2> QED BY <2>3, <2>10, <2>11, <2>12
<1>7. ASSUME UNCHANGED <<order, fulfillment, onHand>> PROVE Goal
  BY <1>2, <1>7, OutcomeStands
<1> QED BY <1>3, <1>4, <1>5, <1>6, <1>7
        DEF SettlementNext, BeginAdvance, AbandonAdvance, TimePasses

-----------------------------------------------------------------------------
(* The disputes. *)

\* At that time order o had been sent, and one of its two windows was open.
InWindow(o, at) ==
  \E shipped \in ReachedAt(o, "SHIPPED") :
    /\ shipped <= at
    /\ \/ at <= shipped + ShippedWindow
       \/ \E delivered \in ReachedAt(o, "DELIVERED") : at <= delivered + DeliveredWindow

DisputeRowsTypeOK ==
  /\ dispute \in [Orders -> DisputeRow \cup {NoDispute}]
  /\ history \in [Orders -> Seq(DisputeEvent)]
  /\ opening \in [BuyerRequests -> [phase: {"ELIGIBLE"}, order: Orders, at: Nat] \cup {Idle}]

\* A request that found the window open found it so for good: the timeline grows.
DisputeInv ==
  /\ DisputeRowsTypeOK
  /\ \A b \in BuyerRequests : opening[b] # Idle => InWindow(opening[b].order, opening[b].at)
  /\ \A o \in Orders : dispute[o] # NoDispute => ReachedAt(o, "SHIPPED") # {}
  /\ \A o \in Orders :
       dispute[o].status = "AWAITING_SELLER_RESPONSE" => InWindow(o, dispute[o].deadlineAt - ResponseTime)

LEMMA DisputesJustified == SettleInv /\ DisputeInv => DisputesAreJustified
<1> SUFFICES ASSUME SettleInv, DisputeInv, NEW o \in Orders, dispute[o] # NoDispute
             PROVE  /\ refund[o].status = "NONE"
                    /\ \E shipped \in ReachedAt(o, "SHIPPED") :
                          dispute[o].status = "AWAITING_SELLER_RESPONSE" =>
                              /\ shipped <= dispute[o].deadlineAt - ResponseTime
                              /\ \/ dispute[o].deadlineAt - ResponseTime <= shipped + ShippedWindow
                                 \/ \E delivered \in ReachedAt(o, "DELIVERED") :
                                       dispute[o].deadlineAt - ResponseTime <= delivered + DeliveredWindow
  BY DEF DisputesAreJustified
<1>1. ReachedAt(o, "SHIPPED") # {}
  BY DEF DisputeInv
<1>2. refund[o].status = "NONE"
  <2>1. fulfillment[o].status \in {"SHIPPED", "DELIVERED"} /\ order[o] \in OrderStatus /\ Undone(o)
    BY <1>1 DEF SettleInv, SettlementTypeOK, StaysSent
  <2> QED BY <2>1 DEF Undone, OrderStatus
<1>3. CASE dispute[o].status # "AWAITING_SELLER_RESPONSE"
  BY <1>1, <1>2, <1>3
<1>4. CASE dispute[o].status = "AWAITING_SELLER_RESPONSE"
  BY <1>2, <1>4 DEF DisputeInv, InWindow
<1> QED BY <1>3, <1>4

\* What a timeline says is never unsaid, nor is an open window.
LEMMA WindowStays ==
  ASSUME SettleInv, SettleInv', NEW o \in Orders, Grows(o)
  PROVE  /\ \A s : ReachedAt(o, s) \subseteq ReachedAt(o, s)'
         /\ \A at : InWindow(o, at) => InWindow(o, at)'
<1>1. timeline[o] \in Seq(Entry) /\ timeline'[o] \in Seq(Entry)
  BY DEF SettleInv, SettlementTypeOK
<1>2. /\ DOMAIN timeline[o] = 1..Len(timeline[o]) /\ Len(timeline[o]) \in Nat
      /\ DOMAIN timeline'[o] = 1..Len(timeline'[o]) /\ Len(timeline'[o]) \in Nat
  BY <1>1
<1>3. \A i \in DOMAIN timeline[o] : i \in DOMAIN timeline'[o] /\ timeline'[o][i] = timeline[o][i]
  BY <1>2 DEF Grows
<1>4. \A s : ReachedAt(o, s) \subseteq ReachedAt(o, s)'
  <2> TAKE s
  <2>1. ASSUME NEW x \in ReachedAt(o, s) PROVE x \in ReachedAt(o, s)'
    BY <1>3, <2>1 DEF ReachedAt
  <2> QED BY <2>1
<1>5. \A at : InWindow(o, at) => InWindow(o, at)'
  <2> TAKE at
  <2> HAVE InWindow(o, at)
  <2>1. PICK shipped \in ReachedAt(o, "SHIPPED") :
          /\ shipped <= at
          /\ \/ at <= shipped + ShippedWindow
             \/ \E delivered \in ReachedAt(o, "DELIVERED") : at <= delivered + DeliveredWindow
    BY DEF InWindow
  <2>2. shipped \in ReachedAt(o, "SHIPPED")' /\ ReachedAt(o, "DELIVERED") \subseteq ReachedAt(o, "DELIVERED")'
    BY <1>4
  <2> QED BY <2>1, <2>2 DEF InWindow
<1> QED BY <1>4, <1>5

\* A step of the fulfillment or the refund leaves every dispute justified.
LEMMA DisputesStand ==
  ASSUME SettleInv, SettleInv', DisputeInv, UNCHANGED disputeVars, \A p \in Orders : Grows(p)
  PROVE  DisputeInv'
<1>1. DisputeRowsTypeOK'
  BY DEF DisputeInv, DisputeRowsTypeOK, disputeVars
<1>2. ASSUME NEW b \in BuyerRequests, opening'[b] # Idle
      PROVE  InWindow(opening[b].order, opening[b].at)'
  <2>1. opening[b].order \in Orders /\ InWindow(opening[b].order, opening[b].at) /\ UNCHANGED opening
    BY <1>2 DEF DisputeInv, DisputeRowsTypeOK, disputeVars
  <2>2. PICK o \in Orders : o = opening[b].order
    BY <2>1
  <2>3. PICK at : at = opening[b].at
    OBVIOUS
  <2>4. InWindow(o, at)'
    BY <2>1, <2>2, <2>3, WindowStays
  <2> QED BY <2>1, <2>2, <2>3, <2>4 DEF InWindow
<1>3. ASSUME NEW o \in Orders, dispute'[o] # NoDispute PROVE ReachedAt(o, "SHIPPED")' # {}
  BY <1>3, WindowStays DEF DisputeInv, disputeVars
<1>4. ASSUME NEW o \in Orders, dispute'[o].status = "AWAITING_SELLER_RESPONSE"
      PROVE  InWindow(o, dispute[o].deadlineAt - ResponseTime)'
  <2>1. PICK at : at = dispute[o].deadlineAt - ResponseTime
    OBVIOUS
  <2>2. InWindow(o, at) /\ UNCHANGED dispute
    BY <1>4, <2>1 DEF DisputeInv, disputeVars
  <2>3. InWindow(o, at)'
    BY <2>2, WindowStays
  <2> QED BY <2>1, <2>2, <2>3 DEF InWindow
<1> QED BY <1>1, <1>2, <1>3, <1>4 DEF DisputeInv

\* A request looks at the window.
LEMMA BeginOpenKeeps ==
  ASSUME SettleInv, DisputeInv, NEW b \in BuyerRequests, NEW o \in Orders, BeginOpen(b, o)
  PROVE  DisputeInv'
<1> DEFINE new == [phase |-> "ELIGIBLE", order |-> o, at |-> now]
<1>1. /\ WindowOpen(o, now) /\ opening' = [opening EXCEPT ![b] = new]
      /\ UNCHANGED <<dispute, history, settlementVars>>
  BY DEF BeginOpen
<1>2. now \in Nat /\ timeline[o] \in Seq(Entry) /\ IsPast(o)
  BY DEF SettleInv, SettlementTypeOK
<1>3. new \in [phase: {"ELIGIBLE"}, order: Orders, at: Nat] /\ new.order = o /\ new.at = now
  BY <1>2
<1> HIDE DEF new
<1>4. InWindow(o, now)
  <2>1. \A s, x : x \in ReachedAt(o, s) => x <= now
    BY <1>2 DEF IsPast, ReachedAt
  <2>2. CASE ReachedAt(o, "DELIVERED") # {}
    BY <1>1, <2>1, <2>2 DEF WindowOpen, InWindow
  <2>3. CASE ReachedAt(o, "DELIVERED") = {}
    BY <1>1, <2>1, <2>3 DEF WindowOpen, InWindow
  <2> QED BY <2>2, <2>3
<1>5. \A p, at : InWindow(p, at)' <=> InWindow(p, at)
  BY <1>1 DEF InWindow, ReachedAt, settlementVars
<1>6. /\ opening' \in [BuyerRequests -> [phase: {"ELIGIBLE"}, order: Orders, at: Nat] \cup {Idle}]
      /\ opening'[b] = new /\ \A c \in BuyerRequests : c # b => opening'[c] = opening[c]
  BY <1>1, <1>3 DEF DisputeInv, DisputeRowsTypeOK
<1>7. DisputeRowsTypeOK'
  BY <1>1, <1>6 DEF DisputeInv, DisputeRowsTypeOK
<1>8. ASSUME NEW c \in BuyerRequests, opening'[c] # Idle
      PROVE  InWindow(opening'[c].order, opening'[c].at)
  BY <1>3, <1>4, <1>6, <1>8 DEF DisputeInv
<1>9. \A p : ReachedAt(p, "SHIPPED")' = ReachedAt(p, "SHIPPED")
  BY <1>1 DEF ReachedAt, settlementVars
<1>10. \A c \in BuyerRequests : opening'[c] # Idle => InWindow(opening[c].order, opening[c].at)'
  BY <1>1, <1>8, <1>9 DEF InWindow, ReachedAt, settlementVars
<1>11. \A p \in Orders :
         dispute'[p].status = "AWAITING_SELLER_RESPONSE" => InWindow(p, dispute[p].deadlineAt - ResponseTime)'
  BY <1>1 DEF DisputeInv, InWindow, ReachedAt, settlementVars
<1> QED BY <1>1, <1>7, <1>9, <1>10, <1>11 DEF DisputeInv

\* A dispute is written together with its event.
LEMMA RecordsKeeps ==
  ASSUME DisputeInv, NEW o \in Orders, NEW type \in
           {"DisputeOpened", "DisputeResponded", "DisputeResolved", "DisputeReopened"},
         NEW row \in DisputeRow, Records(o, type, row), UNCHANGED settlementVars,
         ReachedAt(o, "SHIPPED") # {},
         row.status = "AWAITING_SELLER_RESPONSE" => InWindow(o, row.deadlineAt - ResponseTime),
         opening' \in [BuyerRequests -> [phase: {"ELIGIBLE"}, order: Orders, at: Nat] \cup {Idle}],
         \A b \in BuyerRequests : opening'[b] = opening[b] \/ opening'[b] = Idle
  PROVE  DisputeInv' /\ dispute'[o] = row /\ \A p \in Orders : p # o => dispute'[p] = dispute[p]
<1> DEFINE event == [type |-> type, status |-> row.status, version |-> row.version]
<1>1. event \in DisputeEvent
  BY DEF DisputeEvent, DisputeRow
<1>2. dispute' = [dispute EXCEPT ![o] = row] /\ history' = [history EXCEPT ![o] = Append(@, event)]
  BY DEF Records
<1> HIDE DEF event
<1>3. /\ dispute' \in [Orders -> DisputeRow \cup {NoDispute}]
      /\ dispute'[o] = row /\ \A p \in Orders : p # o => dispute'[p] = dispute[p]
  BY <1>2 DEF DisputeInv, DisputeRowsTypeOK
<1>4. history' \in [Orders -> Seq(DisputeEvent)]
  <2>1. history[o] \in Seq(DisputeEvent)
    BY DEF DisputeInv, DisputeRowsTypeOK
  <2>2. Append(history[o], event) \in Seq(DisputeEvent)
    BY <1>1, <2>1
  <2> QED BY <1>2, <2>2 DEF DisputeInv, DisputeRowsTypeOK
<1>5. DisputeRowsTypeOK'
  BY <1>3, <1>4 DEF DisputeRowsTypeOK
<1>6. \A p, s : ReachedAt(p, s)' = ReachedAt(p, s)
  BY DEF ReachedAt, settlementVars
<1>7. \A p, at : InWindow(p, at)' <=> InWindow(p, at)
  BY DEF InWindow, ReachedAt, settlementVars
<1>8. \A b \in BuyerRequests : opening'[b] # Idle => InWindow(opening'[b].order, opening'[b].at)
  BY DEF DisputeInv
<1>9. \A b \in BuyerRequests : opening'[b] # Idle => InWindow(opening[b].order, opening[b].at)'
  BY <1>8 DEF InWindow, ReachedAt, settlementVars
<1>10. \A p \in Orders : dispute'[p] # NoDispute => ReachedAt(p, "SHIPPED")' # {}
  BY <1>3, <1>6 DEF DisputeInv
<1>11. \A p \in Orders : dispute'[p].status = "AWAITING_SELLER_RESPONSE"
                           => InWindow(p, dispute'[p].deadlineAt - ResponseTime)
  BY <1>3 DEF DisputeInv
<1>12. \A p \in Orders : dispute'[p].status = "AWAITING_SELLER_RESPONSE"
                           => InWindow(p, dispute[p].deadlineAt - ResponseTime)'
  BY <1>11 DEF InWindow, ReachedAt, settlementVars
<1> QED BY <1>3, <1>5, <1>9, <1>10, <1>12 DEF DisputeInv

\* A step that decides about a dispute: the seller has answered, or was given the
\* time to.
DecidesInTime ==
  \A o \in Orders :
    dispute[o].status = "AWAITING_SELLER_RESPONSE" /\ dispute'[o].status \in Decided
      => dispute[o].deadlineAt < now

LEMMA DisputeStepKeeps ==
  ASSUME SettleInv, DisputeInv, DisputesNext
  PROVE  /\ SettleInv' /\ DisputeInv' /\ DecidesInTime
         /\ \A p \in Orders : Grows(p)
<1>1. /\ dispute \in [Orders -> DisputeRow \cup {NoDispute}]
      /\ opening \in [BuyerRequests -> [phase: {"ELIGIBLE"}, order: Orders, at: Nat] \cup {Idle}]
      /\ now \in Nat
      /\ NoDispute.status = "NONE" /\ NoDispute.version = 0
  BY DEF SettleInv, SettlementTypeOK, DisputeInv, DisputeRowsTypeOK, NoDispute
<1>2. ASSUME UNCHANGED settlementVars PROVE SettleInv' /\ \A p \in Orders : Grows(p)
  <2>1. SettlementTypeOK'
    BY <1>2 DEF settlementVars, SettleInv, SettlementTypeOK
  <2>2. \A p \in Orders : Undone(p)'
    BY <1>2 DEF settlementVars, SettleInv, Undone
  <2>3. \A p \in Orders : StaysSent(p)' /\ IsPast(p)'
    <3>1. \A p : ReachedAt(p, "SHIPPED")' = ReachedAt(p, "SHIPPED")
      BY <1>2 DEF settlementVars, ReachedAt
    <3> QED BY <1>2, <3>1 DEF settlementVars, SettleInv, StaysSent, IsPast
  <2>4. \A r \in Requests : advancing'[r] # Idle => advancing'[r].at <= now'
    BY <1>2 DEF settlementVars, SettleInv
  <2>5. \A p : Grows(p)
    BY <1>2, AllGrow DEF settlementVars
  <2> QED BY <2>1, <2>2, <2>3, <2>4, <2>5 DEF SettleInv
<1>3. UNCHANGED dispute => DecidesInTime
  BY <1>1 DEF DecidesInTime, Decided
<1>4. CASE SettlementNext /\ UNCHANGED disputeVars
  <2>1. SettleInv' /\ \A p \in Orders : Grows(p)
    BY <1>4, SettlementStepKeeps
  <2> QED BY <1>3, <1>4, <2>1, DisputesStand DEF disputeVars
<1>5. ASSUME NEW b \in BuyerRequests, NEW o \in Orders, BeginOpen(b, o)
      PROVE  SettleInv' /\ DisputeInv' /\ DecidesInTime /\ \A p \in Orders : Grows(p)
  BY <1>2, <1>3, <1>5, BeginOpenKeeps DEF BeginOpen
<1>6. ASSUME NEW b \in BuyerRequests, CommitOpen(b)
      PROVE  SettleInv' /\ DisputeInv' /\ DecidesInTime /\ \A p \in Orders : Grows(p)
  <2>1. PICK o : o = opening[b].order
    OBVIOUS
  <2>2. PICK at : at = opening[b].at
    OBVIOUS
  <2> DEFINE row == [status |-> "AWAITING_SELLER_RESPONSE", deadlineAt |-> at + ResponseTime, version |-> 1]
  <2>3. opening[b] # Idle /\ o \in Orders /\ at \in Nat /\ InWindow(o, at)
    BY <1>1, <1>6, <2>1, <2>2 DEF CommitOpen, DisputeInv
  <2>4. /\ dispute[o] = NoDispute /\ Records(o, "DisputeOpened", row)
        /\ opening' = [opening EXCEPT ![b] = Idle] /\ UNCHANGED settlementVars
    BY <1>6, <2>1, <2>2 DEF CommitOpen
  <2>5. /\ row \in DisputeRow /\ row.status = "AWAITING_SELLER_RESPONSE"
        /\ row.deadlineAt = at + ResponseTime
    BY <2>3, DisputesAssumption DEF DisputeRow, DisputeStatus
  <2> HIDE DEF row
  <2>6. row.deadlineAt - ResponseTime = at
    BY <2>3, <2>5, DisputesAssumption
  <2>7. ReachedAt(o, "SHIPPED") # {}
    BY <2>3 DEF InWindow
  <2>8. /\ opening' \in [BuyerRequests -> [phase: {"ELIGIBLE"}, order: Orders, at: Nat] \cup {Idle}]
        /\ \A c \in BuyerRequests : opening'[c] = opening[c] \/ opening'[c] = Idle
    BY <1>1, <2>4
  <2>9. DisputeInv' /\ dispute'[o] = row /\ \A p \in Orders : p # o => dispute'[p] = dispute[p]
    BY <2>3, <2>4, <2>5, <2>6, <2>7, <2>8, RecordsKeeps
  <2>10. DecidesInTime
    BY <1>1, <2>4, <2>9 DEF DecidesInTime, Decided
  <2> QED BY <1>2, <2>4, <2>9, <2>10
<1>7. ASSUME NEW b \in BuyerRequests, AbandonOpen(b)
      PROVE  SettleInv' /\ DisputeInv' /\ DecidesInTime /\ \A p \in Orders : Grows(p)
  <2>1. /\ opening' = [opening EXCEPT ![b] = Idle] /\ UNCHANGED <<dispute, history, settlementVars>>
    BY <1>7 DEF AbandonOpen
  <2>2. /\ opening' \in [BuyerRequests -> [phase: {"ELIGIBLE"}, order: Orders, at: Nat] \cup {Idle}]
        /\ \A c \in BuyerRequests : opening'[c] = opening[c] \/ opening'[c] = Idle
    BY <1>1, <2>1
  <2>3. DisputeRowsTypeOK'
    BY <2>1, <2>2 DEF DisputeInv, DisputeRowsTypeOK
  <2>4. \A c \in BuyerRequests : opening'[c] # Idle => InWindow(opening'[c].order, opening'[c].at)
    BY <2>2 DEF DisputeInv
  <2>5. \A c \in BuyerRequests : opening'[c] # Idle => InWindow(opening[c].order, opening[c].at)'
    BY <2>1, <2>4 DEF InWindow, ReachedAt, settlementVars
  <2>6. \A p \in Orders : dispute'[p] # NoDispute => ReachedAt(p, "SHIPPED")' # {}
    BY <2>1 DEF DisputeInv, ReachedAt, settlementVars
  <2>7. \A p \in Orders : dispute'[p].status = "AWAITING_SELLER_RESPONSE"
                            => InWindow(p, dispute[p].deadlineAt - ResponseTime)'
    BY <2>1 DEF DisputeInv, InWindow, ReachedAt, settlementVars
  <2>8. DisputeInv'
    BY <2>3, <2>5, <2>6, <2>7 DEF DisputeInv
  <2> QED BY <1>2, <1>3, <2>1, <2>8
<1>8. ASSUME NEW o \in Orders, NEW type \in {"DisputeResponded", "DisputeResolved", "DisputeReopened"},
             NEW row \in DisputeRow, row.status # "AWAITING_SELLER_RESPONSE",
             dispute[o] # NoDispute, Records(o, type, row), UNCHANGED <<opening, settlementVars>>
      PROVE  /\ SettleInv' /\ DisputeInv' /\ \A p \in Orders : Grows(p)
             /\ dispute'[o] = row /\ \A p \in Orders : p # o => dispute'[p] = dispute[p]
  <2>1. ReachedAt(o, "SHIPPED") # {}
    BY <1>8 DEF DisputeInv
  <2> QED BY <1>1, <1>2, <1>8, <2>1, RecordsKeeps
<1>9. ASSUME NEW o \in Orders, NEW at \in 0..now, Respond(o, at) \/ Reopen(o, at)
      PROVE  SettleInv' /\ DisputeInv' /\ DecidesInTime /\ \A p \in Orders : Grows(p)
  <2>1. dispute[o] \in DisputeRow /\ dispute[o] # NoDispute
    BY <1>1, <1>9 DEF Respond, Reopen, PlatformAction, Decided, Overdue
  <2> DEFINE row == UnderReview(dispute[o].version + 1)
  <2>2. PICK type \in {"DisputeResponded", "DisputeReopened"} : Records(o, type, row)
    BY <1>9 DEF Respond, Reopen
  <2>3. row \in DisputeRow /\ row.status = "UNDER_REVIEW"
    BY <2>1 DEF UnderReview, DisputeRow, DisputeStatus
  <2>4. UNCHANGED <<opening, settlementVars>>
    BY <1>9 DEF Respond, Reopen
  <2> HIDE DEF row
  <2>5. /\ SettleInv' /\ DisputeInv' /\ \A p \in Orders : Grows(p)
        /\ dispute'[o] = row /\ \A p \in Orders : p # o => dispute'[p] = dispute[p]
    BY <1>8, <2>1, <2>2, <2>3, <2>4
  <2>6. DecidesInTime
    BY <2>3, <2>5 DEF DecidesInTime, Decided
  <2> QED BY <2>5, <2>6
<1>10. ASSUME NEW o \in Orders, NEW at \in 0..now, NEW status \in Decided, Resolve(o, status, at)
       PROVE  SettleInv' /\ DisputeInv' /\ DecidesInTime /\ \A p \in Orders : Grows(p)
  <2> DEFINE row == [status |-> status, deadlineAt |-> at + ReopenWindow,
                     version |-> dispute[o].version + (IF Overdue(o, at) THEN 2 ELSE 1)]
  <2>1. dispute[o].status = "UNDER_REVIEW" \/ Overdue(o, at)
    BY <1>10 DEF Resolve, PlatformAction
  <2>2. dispute[o] \in DisputeRow /\ dispute[o] # NoDispute
    BY <1>1, <2>1 DEF Overdue
  <2>3. row \in DisputeRow /\ row.status = status /\ status # "AWAITING_SELLER_RESPONSE"
    BY <2>2, DisputesAssumption DEF DisputeRow, DisputeStatus, Decided
  <2>4. Records(o, "DisputeResolved", row) /\ UNCHANGED <<opening, settlementVars>>
    BY <1>10 DEF Resolve
  <2> HIDE DEF row
  <2>5. /\ SettleInv' /\ DisputeInv' /\ \A p \in Orders : Grows(p)
        /\ dispute'[o] = row /\ \A p \in Orders : p # o => dispute'[p] = dispute[p]
    BY <1>8, <2>2, <2>3, <2>4
  <2>6. dispute[o].status = "AWAITING_SELLER_RESPONSE" => dispute[o].deadlineAt < now
    <3>1. dispute[o].deadlineAt \in Int /\ at \in Int /\ at <= now
      BY <1>1, <2>2 DEF DisputeRow, NoDeadline
    <3> QED BY <1>1, <2>1, <3>1 DEF Overdue
  <2>7. DecidesInTime
    <3> SUFFICES ASSUME NEW p \in Orders, dispute[p].status = "AWAITING_SELLER_RESPONSE",
                        dispute'[p].status \in Decided
                 PROVE  dispute[p].deadlineAt < now
      BY DEF DecidesInTime
    <3> QED BY <2>5, <2>6 DEF Decided
  <2> QED BY <2>5, <2>7
<1> QED BY <1>4, <1>5, <1>6, <1>7, <1>9, <1>10 DEF DisputesNext

-----------------------------------------------------------------------------
(* The views of the worker. *)

\* A view shows the newest event it has applied, and an event that is in the timeline.
Follows(view, versions, o) ==
  /\ ShowsNewest(view, versions, o)
  /\ view[o].version > 1 => view[o].version \in 1..Len(timeline[o])

ViewInv ==
  /\ ViewTypeOK
  /\ \A o \in Orders : Follows(relatedBuyerStatus, handled["BUYER"][o], o)
  /\ \A o \in Orders : Follows(sellerStatus, handled["SELLER"][o], o)

\* A view that applies one more event, in whatever order they arrive.
LEMMA FollowsOneMore ==
  ASSUME NEW o \in Orders, NEW view, NEW versions, NEW row, NEW after,
         versions \subseteq Nat, view[o].version \in Nat, row.version \in Nat,
         row.version > 1 => /\ row.version \in 1..Len(timeline[o])
                            /\ row.status = timeline[o][row.version].status,
         Follows(view, versions, o),
         after[o] = IF view[o].version < row.version THEN row ELSE view[o]
  PROVE  Follows(after, versions \cup {row.version}, o)
<1>1. CASE view[o].version < row.version
  BY <1>1 DEF Follows, ShowsNewest
<1>2. CASE ~(view[o].version < row.version)
  BY <1>2 DEF Follows, ShowsNewest
<1> QED BY <1>1, <1>2

LEMMA ViewsStand ==
  ASSUME SettleInv, SettleInv', ViewInv, UNCHANGED viewVars, \A p \in Orders : Grows(p)
  PROVE  ViewInv'
<1>1. ViewTypeOK'
  BY DEF ViewInv, ViewTypeOK, viewVars
<1>2. ASSUME NEW view, NEW versions, NEW o \in Orders, Follows(view, versions, o), view[o].version \in Nat
      PROVE  Follows(view, versions, o)'
  <2>1. Len(timeline[o]) \in Nat /\ Len(timeline'[o]) \in Nat
    BY DEF SettleInv, SettlementTypeOK
  <2>2. Grows(o)
    OBVIOUS
  <2> QED BY <1>2, <2>1, <2>2 DEF Follows, ShowsNewest, Grows
<1>3. \A o \in Orders : relatedBuyerStatus[o].version \in Nat /\ sellerStatus[o].version \in Nat
  BY DEF ViewInv, ViewTypeOK
<1>4. \A o \in Orders : Follows(relatedBuyerStatus, handled["BUYER"][o], o)'
  <2> TAKE o \in Orders
  <2>1. PICK view : view = relatedBuyerStatus
    OBVIOUS
  <2>2. PICK versions : versions = handled["BUYER"][o]
    OBVIOUS
  <2>3. Follows(view, versions, o)'
    BY <1>2, <1>3, <2>1, <2>2 DEF ViewInv
  <2> QED BY <2>1, <2>2, <2>3 DEF Follows, ShowsNewest, viewVars
<1>5. \A o \in Orders : Follows(sellerStatus, handled["SELLER"][o], o)'
  <2> TAKE o \in Orders
  <2>1. PICK view : view = sellerStatus
    OBVIOUS
  <2>2. PICK versions : versions = handled["SELLER"][o]
    OBVIOUS
  <2>3. Follows(view, versions, o)'
    BY <1>2, <1>3, <2>1, <2>2 DEF ViewInv
  <2> QED BY <2>1, <2>2, <2>3 DEF Follows, ShowsNewest, viewVars
<1> QED BY <1>1, <1>4, <1>5 DEF ViewInv

\* What the outbox has handled after one delivery.
LEMMA DeliversOne ==
  ASSUME ViewTypeOK, NEW c \in Consumers, NEW o \in Orders, NEW v \in Nat, Delivers(c, o, v)
  PROVE  /\ handled' \in [Consumers -> [Orders -> SUBSET Nat]]
         /\ handled'[c][o] = handled[c][o] \cup {v}
         /\ \A d \in Consumers, p \in Orders : d # c \/ p # o => handled'[d][p] = handled[d][p]
BY DEF ViewTypeOK, Delivers

\* The view that applies it, if it is newer than what the view shows.
LEMMA Upserted ==
  ASSUME NEW Row, NEW view \in [Orders -> Row], NEW o \in Orders, NEW row \in Row
  PROVE  /\ Upsert(view, o, row) \in [Orders -> Row]
         /\ Upsert(view, o, row)[o] = IF view[o].version < row.version THEN row ELSE view[o]
         /\ \A p \in Orders : p # o => Upsert(view, o, row)[p] = view[p]
BY DEF Upsert

LEMMA StatusViewMoves ==
  ASSUME SettleInv, NEW Status, NEW view \in [Orders -> [status: Status, version: Nat]],
         NEW c \in Consumers, NEW o \in Orders, NEW row \in [status: Status, version: Nat],
         ViewTypeOK, Delivers(c, o, row.version),
         \A p \in Orders : Follows(view, handled[c][p], p),
         row.version > 1 => /\ row.version \in 1..Len(timeline[o])
                            /\ row.status = timeline[o][row.version].status
  PROVE  \A p \in Orders : Follows(Upsert(view, o, row), handled'[c][p], p)
<1>1. row.version \in Nat /\ handled[c][o] \subseteq Nat /\ view[o].version \in Nat
  BY DEF ViewTypeOK
<1>2. /\ Upsert(view, o, row)[o] = IF view[o].version < row.version THEN row ELSE view[o]
      /\ \A p \in Orders : p # o => Upsert(view, o, row)[p] = view[p]
  <2>1. DOMAIN view = Orders
    OBVIOUS
  <2> QED BY <2>1 DEF Upsert
<1>3. /\ handled'[c][o] = handled[c][o] \cup {row.version}
      /\ \A p \in Orders : p # o => handled'[c][p] = handled[c][p]
  BY <1>1, DeliversOne
<1>4. Follows(Upsert(view, o, row), handled[c][o] \cup {row.version}, o)
  BY <1>1, <1>2, FollowsOneMore
<1>5. ASSUME NEW p \in Orders, p # o PROVE Follows(Upsert(view, o, row), handled'[c][p], p)
  BY <1>2, <1>3, <1>5 DEF Follows, ShowsNewest
<1> QED BY <1>3, <1>4, <1>5

LEMMA ViewStepKeeps ==
  ASSUME SettleInv, DisputeInv, ViewInv, NEW o \in Orders,
         ShowAccepted(o) \/ ShowRelatedBuyer(o) \/ ShowToSeller(o) \/ ShowDispute(o)
  PROVE  ViewInv' /\ UNCHANGED <<settlementVars, disputeVars>>
<1>1. /\ ViewTypeOK /\ UNCHANGED <<settlementVars, disputeVars>>
      /\ \A p \in Orders : Follows(relatedBuyerStatus, handled["BUYER"][p], p)
      /\ \A p \in Orders : Follows(sellerStatus, handled["SELLER"][p], p)
      /\ "BUYER" \in Consumers /\ "SELLER" \in Consumers /\ "DISPUTE" \in Consumers
  BY DEF ViewInv, ShowAccepted, ShowRelatedBuyer, ShowToSeller, ShowDispute, Consumers
<1>2. /\ relatedBuyerStatus \in [Orders -> [status: RelatedBuyerStatus \cup {"NONE"}, version: Nat]]
      /\ sellerStatus \in [Orders -> [status: FulfillmentStatus \cup {"NONE"}, version: Nat]]
      /\ disputeState \in [Orders -> [status: DisputeStatus \cup {"NONE"}, version: Nat]]
  BY <1>1 DEF ViewTypeOK
<1>3. \A event \in Advanced(o) :
        /\ event.version \in Nat /\ event.status \in FulfillmentStatus
        /\ event.version \in 1..Len(timeline[o]) /\ event.status = timeline[o][event.version].status
        /\ event = [status |-> event.status, version |-> event.version]
  <2> TAKE event \in Advanced(o)
  <2>1. PICK v \in 2..Len(timeline[o]) : event = [status |-> timeline[o][v].status, version |-> v]
    BY DEF Advanced
  <2>2. timeline[o] \in Seq(Entry)
    BY DEF SettleInv, SettlementTypeOK
  <2>3. v \in 1..Len(timeline[o]) /\ v \in Nat /\ timeline[o][v] \in Entry
    BY <2>2
  <2>4. timeline[o][v].status \in FulfillmentStatus
    BY <2>3 DEF Entry
  <2> QED BY <2>1, <2>3, <2>4
<1>4. \A v, w, p : Follows(v, w, p)' <=> Follows(v, w, p)
  BY <1>1 DEF Follows, ShowsNewest, settlementVars
<1>5. ASSUME NEW row \in [status: RelatedBuyerStatus \cup {"NONE"}, version: Nat],
             Delivers("BUYER", o, row.version),
             relatedBuyerStatus' = Upsert(relatedBuyerStatus, o, row),
             UNCHANGED <<sellerStatus, disputeState>>,
             row.version > 1 => /\ row.version \in 1..Len(timeline[o])
                                /\ row.status = timeline[o][row.version].status
      PROVE  ViewInv'
  <2>1. \A p \in Orders : Follows(relatedBuyerStatus', handled'["BUYER"][p], p)
    BY <1>1, <1>2, <1>5, StatusViewMoves
  <2>2. /\ handled' \in [Consumers -> [Orders -> SUBSET Nat]]
        /\ \A p \in Orders : handled'["SELLER"][p] = handled["SELLER"][p]
    BY <1>1, <1>5, DeliversOne
  <2>3. ViewTypeOK'
    BY <1>2, <1>5, <2>2, Upserted DEF ViewTypeOK
  <2>4. \A p \in Orders : Follows(relatedBuyerStatus, handled["BUYER"][p], p)'
    BY <1>1, <2>1 DEF Follows, ShowsNewest, settlementVars
  <2>5. \A p \in Orders : Follows(sellerStatus, handled["SELLER"][p], p)'
    BY <1>1, <1>5, <2>2 DEF Follows, ShowsNewest, settlementVars
  <2> QED BY <2>3, <2>4, <2>5 DEF ViewInv
<1>6. CASE ShowAccepted(o)
  <2> DEFINE row == [status |-> "ACTION_REQUIRED", version |-> 1]
  <2>1. row \in [status: RelatedBuyerStatus \cup {"NONE"}, version: Nat] /\ row.version = 1
    BY DEF RelatedBuyerStatus
  <2>2. /\ Delivers("BUYER", o, 1) /\ UNCHANGED <<sellerStatus, disputeState>>
        /\ relatedBuyerStatus' = Upsert(relatedBuyerStatus, o, row)
    BY <1>6 DEF ShowAccepted
  <2> HIDE DEF row
  <2> QED BY <1>1, <1>5, <2>1, <2>2
<1>7. CASE ShowRelatedBuyer(o)
  <2>1. PICK event \in Advanced(o) :
          /\ event.status \in RelatedBuyerStatus
          /\ Delivers("BUYER", o, event.version)
          /\ relatedBuyerStatus' = Upsert(relatedBuyerStatus, o, event)
          /\ UNCHANGED <<sellerStatus, disputeState>>
    BY <1>7 DEF ShowRelatedBuyer
  <2>2. event \in [status: RelatedBuyerStatus \cup {"NONE"}, version: Nat]
    BY <1>3, <2>1
  <2> QED BY <1>1, <1>3, <1>5, <2>1, <2>2
<1>8. CASE ShowToSeller(o)
  <2>1. PICK event \in Advanced(o) :
          /\ Delivers("SELLER", o, event.version)
          /\ sellerStatus' = Upsert(sellerStatus, o, event)
          /\ UNCHANGED <<relatedBuyerStatus, disputeState>>
    BY <1>8 DEF ShowToSeller
  <2>2. event \in [status: FulfillmentStatus \cup {"NONE"}, version: Nat]
    BY <1>3
  <2>3. \A p \in Orders : Follows(sellerStatus', handled'["SELLER"][p], p)
    BY <1>1, <1>2, <1>3, <2>1, <2>2, StatusViewMoves
  <2>4. /\ handled' \in [Consumers -> [Orders -> SUBSET Nat]]
        /\ \A p \in Orders : handled'["BUYER"][p] = handled["BUYER"][p]
    BY <1>1, <2>1, <2>2, DeliversOne
  <2>5. ViewTypeOK'
    BY <1>2, <2>1, <2>2, <2>4, Upserted DEF ViewTypeOK
  <2>6. \A p \in Orders : Follows(sellerStatus, handled["SELLER"][p], p)'
    BY <1>1, <2>3 DEF Follows, ShowsNewest, settlementVars
  <2>7. \A p \in Orders : Follows(relatedBuyerStatus, handled["BUYER"][p], p)'
    BY <1>1, <2>1, <2>4 DEF Follows, ShowsNewest, settlementVars
  <2> QED BY <1>1, <2>5, <2>6, <2>7 DEF ViewInv
<1>9. CASE ShowDispute(o)
  <2>1. PICK event \in DisputeEvent :
          /\ Delivers("DISPUTE", o, event.version)
          /\ \/ disputeState' = Upsert(disputeState, o, [status |-> event.status, version |-> event.version])
             \/ disputeState' = disputeState
          /\ UNCHANGED <<relatedBuyerStatus, sellerStatus>>
    <3>1. history[o] \in Seq(DisputeEvent)
      BY DEF DisputeInv, DisputeRowsTypeOK
    <3>2. \A i \in DOMAIN history[o] : history[o][i] \in DisputeEvent
      BY <3>1
    <3> QED BY <1>9, <3>2 DEF ShowDispute
  <2>2. /\ [status |-> event.status, version |-> event.version]
             \in [status: DisputeStatus \cup {"NONE"}, version: Nat]
        /\ event.version \in Nat
    BY <2>1 DEF DisputeEvent
  <2>3. disputeState' \in [Orders -> [status: DisputeStatus \cup {"NONE"}, version: Nat]]
    <3>1. PICK Row : Row = [status: DisputeStatus \cup {"NONE"}, version: Nat]
      OBVIOUS
    <3>2. PICK row : row = [status |-> event.status, version |-> event.version]
      OBVIOUS
    <3>3. row \in Row /\ disputeState \in [Orders -> Row]
      BY <1>2, <2>2, <3>1, <3>2
    <3>4. Upsert(disputeState, o, row) \in [Orders -> Row]
      BY <3>3, Upserted
    <3> QED BY <2>1, <3>1, <3>2, <3>3, <3>4
  <2>4. /\ handled' \in [Consumers -> [Orders -> SUBSET Nat]]
        /\ \A p \in Orders : /\ handled'["BUYER"][p] = handled["BUYER"][p]
                             /\ handled'["SELLER"][p] = handled["SELLER"][p]
    BY <1>1, <2>1, <2>2, DeliversOne
  <2>5. ViewTypeOK'
    BY <1>2, <2>1, <2>3, <2>4 DEF ViewTypeOK
  <2>6. \A p \in Orders : Follows(relatedBuyerStatus, handled["BUYER"][p], p)'
    BY <1>1, <2>1, <2>4 DEF Follows, ShowsNewest, settlementVars
  <2>7. \A p \in Orders : Follows(sellerStatus, handled["SELLER"][p], p)'
    BY <1>1, <2>1, <2>4 DEF Follows, ShowsNewest, settlementVars
  <2> QED BY <1>1, <2>5, <2>6, <2>7 DEF ViewInv
<1> QED BY <1>1, <1>6, <1>7, <1>8, <1>9

-----------------------------------------------------------------------------
(* What holds of every order. *)

AfterSaleInv == SettleInv /\ DisputeInv /\ ViewInv

Promised == <<[o \in Orders |-> Outcome(o)], onHand - InitialOnHand>>

LEMMA AfterSaleBegins == CareInit => AfterSaleInv /\ Promise!Init
<1> SUFFICES ASSUME CareInit PROVE AfterSaleInv /\ Promise!Init
  OBVIOUS
<1>1. /\ now = 0 /\ order = [o \in Orders |-> "PAID"]
      /\ fulfillment = [o \in Orders |-> NoRow] /\ timeline = [o \in Orders |-> <<>>]
      /\ completed = [o \in Orders |-> [k \in Keys |-> "NONE"]]
      /\ advancing = [r \in Requests |-> Idle] /\ refund = [o \in Orders |-> NoRow]
      /\ results = [o \in Orders |-> {}] /\ reservation = [o \in Orders |-> "CONSUMED"]
      /\ onHand = InitialOnHand
  BY DEF CareInit, Init, DisputesInit, SettlementInit
<1>2. /\ dispute = [o \in Orders |-> NoDispute] /\ history = [o \in Orders |-> <<>>]
      /\ opening = [b \in BuyerRequests |-> Idle]
  BY DEF CareInit, Init, DisputesInit
<1>3. /\ relatedBuyerStatus = [o \in Orders |-> NoRow] /\ sellerStatus = [o \in Orders |-> NoRow]
      /\ disputeState = [o \in Orders |-> NoRow]
      /\ handled = [c \in Consumers |-> [o \in Orders |-> {}]]
  BY DEF CareInit, Init
<1>4. NoRow.status = "NONE" /\ NoRow.version = 0 /\ NoRow = [status |-> "NONE", version |-> 0]
  BY DEF NoRow
<1>5. \A o \in Orders : \A s : ReachedAt(o, s) = {}
  BY <1>1 DEF ReachedAt
<1>6. SettlementTypeOK
  BY <1>1, <1>4, SettlementAssumption DEF SettlementTypeOK, OrderStatus, FulfillmentStatus, RefundStatus
<1>7. \A o \in Orders : Undone(o) /\ StaysSent(o) /\ IsPast(o)
  BY <1>1, <1>4, <1>5 DEF Undone, StaysSent, IsPast
<1>8. SettleInv
  BY <1>1, <1>6, <1>7 DEF SettleInv
<1>9. DisputeInv
  BY <1>2 DEF DisputeInv, DisputeRowsTypeOK, NoDispute
<1>10. ViewTypeOK
  BY <1>3, <1>4 DEF ViewTypeOK
<1>11. ViewInv
  BY <1>3, <1>4, <1>10 DEF ViewInv, Follows, ShowsNewest, Consumers
<1>12. Promise!Init
  <2>1. \A o \in Orders : Outcome(o) = "OPEN"
    BY <1>1, <1>4 DEF Outcome
  <2> QED BY <1>1, <2>1, SettlementAssumption DEF Promise!Init
<1> QED BY <1>8, <1>9, <1>11, <1>12 DEF AfterSaleInv

LEMMA AfterSaleStepKeeps ==
  ASSUME AfterSaleInv, [CareNext]_<<vars, msgVars, mediaVars>>
  PROVE  /\ AfterSaleInv'
         /\ DecidesInTime
         /\ [Promise!Next]_Promised
<1>1. SettleInv /\ DisputeInv /\ ViewInv
  BY DEF AfterSaleInv
<1>2. UNCHANGED dispute => DecidesInTime
  BY <1>1 DEF DecidesInTime, DisputeInv, DisputeRowsTypeOK, Decided
<1>3. UNCHANGED settlementVars => UNCHANGED Promised
  BY DEF settlementVars, Promised, Outcome
<1>4. CASE DisputesNext /\ UNCHANGED viewVars
  <2>1. SettleInv' /\ DisputeInv' /\ DecidesInTime /\ \A p \in Orders : Grows(p)
    BY <1>1, <1>4, DisputeStepKeeps
  <2>2. ViewInv'
    BY <1>1, <1>4, <2>1, ViewsStand
  <2>3. SettlementNext \/ UNCHANGED settlementVars
    BY <1>4 DEF DisputesNext, BeginOpen, CommitOpen, AbandonOpen, Respond, Reopen, Resolve
  <2>4. [Promise!Next]_Promised
    BY <1>1, <1>3, <2>3, OutcomeStep DEF Promised
  <2> QED BY <2>1, <2>2, <2>4 DEF AfterSaleInv
<1>5. ASSUME UNCHANGED <<settlementVars, disputeVars>> PROVE SettleInv' /\ DisputeInv'
  <2>1. \A p, s : ReachedAt(p, s)' = ReachedAt(p, s)
    BY <1>5 DEF ReachedAt, settlementVars
  <2>2. SettlementTypeOK' /\ DisputeRowsTypeOK'
    BY <1>1, <1>5 DEF settlementVars, disputeVars, SettleInv, SettlementTypeOK, DisputeInv, DisputeRowsTypeOK
  <2>3. SettleInv'
    BY <1>1, <1>5, <2>1, <2>2 DEF settlementVars, SettleInv, Undone, StaysSent, IsPast
  <2>4. \A p \in Orders : Grows(p)
    BY <1>5, AllGrow DEF settlementVars
  <2> QED BY <1>1, <1>5, <2>3, <2>4, DisputesStand
<1>6. CASE \E o \in Orders :
             ShowAccepted(o) \/ ShowRelatedBuyer(o) \/ ShowToSeller(o) \/ ShowDispute(o)
  <2>1. ViewInv' /\ UNCHANGED <<settlementVars, disputeVars>>
    BY <1>1, <1>6, ViewStepKeeps
  <2> QED BY <1>2, <1>3, <1>5, <2>1 DEF AfterSaleInv, disputeVars
<1>7. CASE UNCHANGED vars
  <2>1. SettleInv' /\ DisputeInv'
    BY <1>5, <1>7 DEF vars
  <2>2. \A p \in Orders : Grows(p)
    BY <1>7, AllGrow DEF vars, settlementVars
  <2>3. ViewInv'
    BY <1>1, <1>7, <2>1, <2>2, ViewsStand DEF vars
  <2> QED BY <1>2, <1>3, <1>7, <2>1, <2>3 DEF AfterSaleInv, vars, disputeVars
<1> QED BY <1>4, <1>6, <1>7 DEF CareNext, Next, vars

LEMMA AfterSaleAlways == CareSpec => []AfterSaleInv
<1>1. CareInit => AfterSaleInv
  BY AfterSaleBegins
<1>2. AfterSaleInv /\ [CareNext]_<<vars, msgVars, mediaVars>> => AfterSaleInv'
  BY AfterSaleStepKeeps
<1> QED BY <1>1, <1>2, PTL DEF CareSpec

(* The four modules that record a sale undo it together: request and recordResult of
   PostgresDirectRefundRepository, advance of PostgresFulfillmentRepository. *)
THEOREM CancellationsAgree == CareSpec => []CancellationAgrees
<1>1. AfterSaleInv => CancellationAgrees
  BY UndoneTogether DEF AfterSaleInv
<1> QED BY <1>1, AfterSaleAlways, PTL

(* A dispute is about goods that were sent and not refunded, and was opened within one
   of the two windows: ProblemFollowUpService.open reads the timeline before the row is
   inserted. *)
THEOREM DisputesStayJustified == CareSpec => []DisputesAreJustified
<1>1. AfterSaleInv => DisputesAreJustified
  BY DisputesJustified DEF AfterSaleInv
<1> QED BY <1>1, AfterSaleAlways, PTL

(* The views of an order's status show the newest event they have applied, whatever
   the order in which the outbox delivers them. *)
THEOREM ViewsShowNewest == CareSpec => []StatusViewsShowNewest
<1>1. AfterSaleInv => StatusViewsShowNewest
  BY DEF AfterSaleInv, ViewInv, Follows, StatusViewsShowNewest
<1> QED BY <1>1, AfterSaleAlways, PTL

(* The platform decides over the head of a silent seller only once the time to respond
   has ended (resolve, platformDisputeAction). *)
THEOREM DecisionsAreNotHasty == CareSpec => NoHastyDecision
<1>1. AfterSaleInv /\ [CareNext]_<<vars, msgVars, mediaVars>>
        => [\A o \in Orders :
              /\ dispute[o].status = "AWAITING_SELLER_RESPONSE"
              /\ dispute'[o].status \in Decided
              => dispute[o].deadlineAt < now]_vars
  BY AfterSaleStepKeeps DEF DecidesInTime
<1> QED BY <1>1, AfterSaleAlways, PTL DEF CareSpec, NoHastyDecision

(* An order is sent and delivered, or given up and paid back, never both, and its goods
   return to the shelf in the step that makes it cancelled and in no other. *)
THEOREM AfterSaleImplementsOutcome == CareSpec => ImplementsOutcome
<1>1. CareInit => Promise!Init
  BY AfterSaleBegins
<1>2. AfterSaleInv /\ [CareNext]_<<vars, msgVars, mediaVars>>
        => [Promise!Next]_<<[o \in Orders |-> Outcome(o)], onHand - InitialOnHand>>
  BY AfterSaleStepKeeps DEF Promised
<1> QED BY <1>1, <1>2, AfterSaleAlways, PTL DEF CareSpec, ImplementsOutcome, Promise!Spec

(* Tables hold rows, and requests in flight what requests remember. *)
THEOREM CareTypeCorrect == CareSpec => []CareTypeOK
<1>1. AfterSaleInv /\ MsgInv /\ MediaInv => CareTypeOK
  BY DEF AfterSaleInv, SettleInv, DisputeInv, DisputeRowsTypeOK, ViewInv, MsgInv, MediaInv,
     CareTypeOK, TypeOK, DisputesTypeOK
<1>2. CareSpec => []MsgInv
  BY MsgStays, PTL DEF CareSpec
<1> QED BY <1>1, <1>2, AfterSaleAlways, MediaAlways, PTL
=============================================================================
