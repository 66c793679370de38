---------------------------- MODULE CartCommands ----------------------------
(***************************************************************************)
(* How the cart's commands keep the answers of their idempotency keys.     *)
(* The repository runs a command and stores its answer in one transaction; *)
(* when the command fails, the transaction is undone and the failure is    *)
(* stored in a second one unless the key has an answer by then.  The first *)
(* version of the API keeps an answer of its own on top of that: it looks  *)
(* for it before it checks anything and writes it, over whatever is there, *)
(* after the command.  The second version goes straight to the repository. *)
(* What the commands do to the carts is module Cart; here a command either *)
(* changes the cart or fails, for reasons that come and go (stock, prices, *)
(* publication, the revision).                                             *)
(***************************************************************************)
EXTENDS Sequences, FiniteSets

CONSTANTS
  Askers,        \* requests in flight
  CartKeys,      \* idempotency keys, each of one command
  RecordedKeys,  \* those of mutate, whose successes the first version keeps too
  CartRequests   \* what is asked

ASSUME CommandAssumption == RecordedKeys \subseteq CartKeys

VARIABLES
  commandAnswer,   \* completed idempotency records of the repository
  responseAnswer,  \* and of the first version of the API
  asking,          \* requests in flight
  changed,         \* changed[k]: the requests that changed a cart under key k, in order
  cartTold         \* <<key, request>> answered with success

commandVars == <<commandAnswer, responseAnswer, asking, changed, cartTold>>

Answer == [key : CartKeys, request : CartRequests, success : BOOLEAN]
Step == {"CHECKING", "CHANGED", "UNDONE", "FAILING"}
Asking ==
  [id : Askers, key : CartKeys, request : CartRequests, first : BOOLEAN, step : Step]

CommandTypeOK ==
  /\ commandAnswer \subseteq Answer /\ responseAnswer \subseteq Answer
  /\ asking \subseteq Asking
  /\ changed \in [CartKeys -> Seq(CartRequests)]
  /\ cartTold \subseteq CartKeys \X CartRequests

CommandInit ==
  /\ commandAnswer = {} /\ responseAnswer = {} /\ asking = {}
  /\ changed = [k \in CartKeys |-> <<>>] /\ cartTold = {}

Succeeded(k, r) == [key |-> k, request |-> r, success |-> TRUE]
Refused(k, r) == [key |-> k, request |-> r, success |-> FALSE]
AnswersOf(k, answers) == {a \in answers : a.key = k}
Tells(k, r) == cartTold' = cartTold \cup {<<k, r>>}

Goes(q, step) == asking' = (asking \ {q}) \cup {[q EXCEPT !.step = step]}
Ends(q) == asking' = asking \ {q}
\* Failures are kept by the first version only.
Fails(q) == IF q.first THEN Goes(q, "FAILING") ELSE Ends(q)

\* runWithFailureReplay before the command; mutateV2 and the like without it.
AskFirst(i, k, r) ==
  /\ \A q \in asking : q.id # i
  /\ AnswersOf(k, responseAnswer) = {}
  /\ asking' = asking \cup
       {[id |-> i, key |-> k, request |-> r, first |-> TRUE, step |-> "CHECKING"]}
  /\ UNCHANGED <<commandAnswer, responseAnswer, changed, cartTold>>
ReplayFirst(k, r) ==
  /\ Succeeded(k, r) \in responseAnswer
  /\ Tells(k, r)
  /\ UNCHANGED <<commandAnswer, responseAnswer, asking, changed>>
AskSecond(i, k, r) ==
  /\ \A q \in asking : q.id # i
  /\ asking' = asking \cup
       {[id |-> i, key |-> k, request |-> r, first |-> FALSE, step |-> "CHECKING"]}
  /\ UNCHANGED <<commandAnswer, responseAnswer, changed, cartTold>>

\* What the service checks first refuses: the product, its store, the stock, two
\* carts that are not resolved.
CheckFails(q) ==
  /\ q.step = "CHECKING"
  /\ Fails(q)
  /\ UNCHANGED <<commandAnswer, responseAnswer, changed, cartTold>>

\* Mutation of RunCommand: an answer to the same request does not stop it.
RunCommandAgain(q) ==
  /\ q.step = "CHECKING"
  /\ \A a \in AnswersOf(q.key, commandAnswer) : a.request = q.request
  /\ commandAnswer' = commandAnswer \cup {Succeeded(q.key, q.request)}
  /\ changed' = [changed EXCEPT ![q.key] = Append(@, q.request)]
  /\ Goes(q, "CHANGED")
  /\ UNCHANGED <<responseAnswer, cartTold>>
\* The command, its claim of the key and its answer commit together.
RunCommand(q) ==
  /\ q.step = "CHECKING"
  /\ AnswersOf(q.key, commandAnswer) = {}
  /\ commandAnswer' = commandAnswer \cup {Succeeded(q.key, q.request)}
  /\ changed' = [changed EXCEPT ![q.key] = Append(@, q.request)]
  /\ Goes(q, "CHANGED")
  /\ UNCHANGED <<responseAnswer, cartTold>>
ReplayCommand(q) ==
  /\ q.step = "CHECKING"
  /\ \E a \in AnswersOf(q.key, commandAnswer) :
       a.request = q.request /\ IF a.success THEN Goes(q, "CHANGED") ELSE Fails(q)
  /\ UNCHANGED <<commandAnswer, responseAnswer, changed, cartTold>>
\* Conflicts of a key or of the lock on it are stored nowhere, nor is a crash.
AskerGoes(q) ==
  /\ Ends(q)
  /\ UNCHANGED <<commandAnswer, responseAnswer, changed, cartTold>>
\* The transaction is undone, and #runIdempotently takes over.
UndoCommand(q) ==
  /\ q.step = "CHECKING"
  /\ AnswersOf(q.key, commandAnswer) = {}
  /\ Goes(q, "UNDONE")
  /\ UNCHANGED <<commandAnswer, responseAnswer, changed, cartTold>>
RecordCommandFailure(q) ==
  /\ q.step = "UNDONE"
  /\ commandAnswer' =
       IF AnswersOf(q.key, commandAnswer) = {}
       THEN commandAnswer \cup {Refused(q.key, q.request)} ELSE commandAnswer
  /\ Fails(q)
  /\ UNCHANGED <<responseAnswer, changed, cartTold>>

\* Presenting the changed cart fails.
PresentationFails(q) ==
  /\ q.step = "CHANGED"
  /\ Fails(q)
  /\ UNCHANGED <<commandAnswer, responseAnswer, changed, cartTold>>

\* #recordApplicationResponse: written over any answer to the same request.
Records(q, answer) ==
  /\ \A a \in AnswersOf(q.key, responseAnswer) : a.request = q.request
  /\ responseAnswer' = (responseAnswer \ AnswersOf(q.key, responseAnswer)) \cup {answer}
AnswerSuccess(q) ==
  /\ q.step = "CHANGED"
  /\ IF q.first /\ q.key \in RecordedKeys
     THEN Records(q, Succeeded(q.key, q.request)) ELSE UNCHANGED responseAnswer
  /\ Tells(q.key, q.request)
  /\ Ends(q)
  /\ UNCHANGED <<commandAnswer, changed>>
AnswerFailure(q) ==
  /\ q.step = "FAILING"
  /\ Records(q, Refused(q.key, q.request))
  /\ Ends(q)
  /\ UNCHANGED <<commandAnswer, changed, cartTold>>

CommandNext ==
  \/ \E k \in CartKeys, r \in CartRequests :
       ReplayFirst(k, r) \/ \E i \in Askers : AskFirst(i, k, r) \/ AskSecond(i, k, r)
  \/ \E q \in asking :
       \/ CheckFails(q) \/ RunCommand(q) \/ ReplayCommand(q) \/ UndoCommand(q)
       \/ RecordCommandFailure(q) \/ PresentationFails(q)
       \/ AnswerSuccess(q) \/ AnswerFailure(q) \/ AskerGoes(q)

CommandSpec == CommandInit /\ [][CommandNext]_commandVars

\* Although the two layers may disagree on the answer of a key and it may even
\* change from one retry to the next, a key changes a cart once at most, and nobody
\* is told of a change that is not the one that was made.
CommandsOnce ==
  INSTANCE OncePerKey WITH
    IdemKeys <- CartKeys, Requests <- CartRequests, effects <- changed, told <- cartTold
CartCommandsRunOnce == CommandsOnce!Spec
=============================================================================
