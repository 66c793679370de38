--------------------------- MODULE MessageSending ---------------------------
(***************************************************************************)
(* Conversations: opening a thread and sending a message to it.  Opening   *)
(* is one transaction.  Sending checks the attachment with the object      *)
(* store, so it holds no transaction meanwhile: it claims its key for 60   *)
(* seconds, checks, and commits the message in a second transaction that   *)
(* looks at the claim again.  A claim that has lapsed may be taken over by *)
(* another request, with another content.  The claims and the commits of   *)
(* one key are serialised by an advisory lock, or refused.                 *)
(***************************************************************************)
EXTENDS Sequences, FiniteSets

CONSTANTS
  Senders,    \* requests in flight, named by the claim ids they draw
  NoClaim,
  OpenKeys, SendKeys,  \* idempotency keys of the two commands
  Contents,   \* what is asked: a context to open, or a message
  Talk        \* the context whose thread the messages go to

ASSUME SendingAssumption ==
  NoClaim \notin Senders /\ OpenKeys \cap SendKeys = {} /\ Talk \in Contents

VARIABLES
  threads,    \* contexts that have a row in conversation_threads
  msgRecord,  \* rows of conversation_idempotency
  sending,    \* the requests to send in flight
  written,    \* written[k]: what was opened or sent under key k, in order
  msgTold     \* <<key, content>> answered with success

msgVars == <<threads, msgRecord, sending, written, msgTold>>

MsgKeys == OpenKeys \cup SendKeys
\* A row without a claim has its response; lapsed: locked_until has passed.
MsgRow ==
  [key : MsgKeys, request : Contents, claim : Senders \cup {NoClaim}, lapsed : BOOLEAN]
Done(k, c) == [key |-> k, request |-> c, claim |-> NoClaim, lapsed |-> FALSE]
\* A request claims its key or, if that has its response, only replays it.
Sending == [id : Senders, key : SendKeys, content : Contents, claims : BOOLEAN]

MsgTypeOK ==
  /\ threads \subseteq Contents
  /\ msgRecord \subseteq MsgRow
  /\ sending \subseteq Sending
  /\ written \in [MsgKeys -> Seq(Contents)]
  /\ msgTold \subseteq MsgKeys \X Contents

MsgInit ==
  /\ threads = {} /\ msgRecord = {} /\ sending = {}
  /\ written = [k \in MsgKeys |-> <<>>] /\ msgTold = {}

RowsOf(k) == {r \in msgRecord : r.key = k}
Store(k, row) == msgRecord' = (msgRecord \ RowsOf(k)) \cup {row}
\* The transaction commits; its answer may be lost on the way.
Writes(k, c) ==
  /\ written' = [written EXCEPT ![k] = Append(@, c)]
  /\ msgTold' \in {msgTold, msgTold \cup {<<k, c>>}}
\* readIdempotency and replayResponse
Replays(k, c) ==
  /\ Done(k, c) \in msgRecord
  /\ msgTold' = msgTold \cup {<<k, c>>}

\* open: a context has one thread, which a second key finds.
OpenThread(k, c) ==
  /\ RowsOf(k) = {}
  /\ Store(k, Done(k, c))
  /\ Writes(k, c)
  /\ threads' = threads \cup {c}
  /\ UNCHANGED sending
ReopenThread(k, c) ==
  /\ Replays(k, c)
  /\ UNCHANGED <<threads, msgRecord, sending, written>>

\* claimSend: inserts the row or takes over one that has lapsed.
ClaimSend(s, k, c) ==
  /\ \A q \in sending : q.id # s
  /\ \A r \in RowsOf(k) : r.lapsed
  /\ Store(k, [key |-> k, request |-> c, claim |-> s, lapsed |-> FALSE])
  /\ sending' = sending \cup {[id |-> s, key |-> k, content |-> c, claims |-> TRUE]}
  /\ UNCHANGED <<threads, written, msgTold>>
\* claimSend, for a key that has its response; a live claim refuses the request.
FindResponse(s, k, c) ==
  /\ \A q \in sending : q.id # s
  /\ \E r \in RowsOf(k) : r.claim = NoClaim
  /\ sending' = sending \cup {[id |-> s, key |-> k, content |-> c, claims |-> FALSE]}
  /\ UNCHANGED <<threads, msgRecord, written, msgTold>>

ClaimLapses(r) ==
  /\ r.claim # NoClaim /\ ~r.lapsed
  /\ Store(r.key, [r EXCEPT !.lapsed = TRUE])
  /\ UNCHANGED <<threads, sending, written, msgTold>>

\* The second transaction of send when the key has its response.
ReplaySend(q) ==
  /\ Replays(q.key, q.content)
  /\ sending' = sending \ {q}
  /\ UNCHANGED <<threads, msgRecord, written>>

\* Mutation of CommitSend: the claim is not looked at again.
CommitUnclaimed(q) ==
  /\ q.claims /\ Talk \in threads
  /\ \E r \in RowsOf(q.key) : r.claim # NoClaim /\ Store(q.key, Done(q.key, r.request))
  /\ Writes(q.key, q.content)
  /\ sending' = sending \ {q}
  /\ UNCHANGED threads
\* The second transaction of send otherwise: requireSendClaim, the message and
\* its event, storeIdempotency, which leaves the request hash as it is.
CommitSend(q) ==
  /\ q.claims /\ Talk \in threads
  /\ \E r \in RowsOf(q.key) :
       r.claim = q.id /\ ~r.lapsed /\ Store(q.key, Done(q.key, r.request))
  /\ Writes(q.key, q.content)
  /\ sending' = sending \ {q}
  /\ UNCHANGED threads

\* Whatever refuses the request after the claim (no thread, no role in it, the
\* attachment, the claim or the lock gone, another content) gives the claim back.
ReleaseSend(q) ==
  /\ msgRecord' = msgRecord \ {r \in RowsOf(q.key) : r.claim = q.id}
  /\ sending' = sending \ {q}
  /\ UNCHANGED <<threads, written, msgTold>>

\* The process goes down before the claim is given back.
SenderCrashes(q) ==
  /\ sending' = sending \ {q}
  /\ UNCHANGED <<threads, msgRecord, written, msgTold>>

MsgNext ==
  \/ \E k \in OpenKeys, c \in Contents : OpenThread(k, c) \/ ReopenThread(k, c)
  \/ \E s \in Senders, k \in SendKeys, c \in Contents :
       ClaimSend(s, k, c) \/ FindResponse(s, k, c)
  \/ \E q \in sending :
       ReplaySend(q) \/ CommitSend(q) \/ ReleaseSend(q) \/ SenderCrashes(q)
  \/ \E r \in msgRecord : ClaimLapses(r)

MsgSpec == MsgInit /\ [][MsgNext]_msgVars

\* A key sends one message, however often the request is repeated and whoever
\* takes over its claim, and nobody is told of a message that is not the one sent.
MessagesOnce ==
  INSTANCE OncePerKey WITH
    IdemKeys <- MsgKeys, Requests <- Contents, effects <- written, told <- msgTold
MessagesAreSentOnce == MessagesOnce!Spec
=============================================================================
