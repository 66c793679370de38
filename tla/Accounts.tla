------------------------------ MODULE Accounts ------------------------------
(***************************************************************************)
(* The public sessions of one person, whose mobile number is one login     *)
(* method of one identity.  A session is opened by a one-time code, in     *)
(* three transactions, or by a seller's password, in one long transaction  *)
(* that holds the number's advisory lock while the password is hashed.  A  *)
(* reset of the password, proved by a code of its own, ends every session  *)
(* and voids every code sent so far.                                       *)
(*                                                                         *)
(* Requests of codes and logins wait for or are refused by the number's    *)
(* lock; sessions are written under a lock on the identity.  Whether the   *)
(* identity and its seller access are ACTIVE is one flag.                  *)
(***************************************************************************)
EXTENDS Naturals, FiniteSets

CONSTANTS
  Challenges,   \* rows of identity_otp_challenges
  Sessions,     \* rows of identity_sessions; those that ended make room
  MaxGuesses,   \* wrong codes a challenge takes
  ResetBound    \* bound of the model: resets of the password

ASSUME AccountAssumption == MaxGuesses \in Nat \ {0} /\ ResetBound \in Nat

VARIABLES
  challenge,  \* rows of identity_otp_challenges
  proved,     \* challenges consumed by a verifyOtp that has not saved its session
  session,    \* the sessions that are neither revoked nor over
  password,   \* the stored hash, as the number of resets before it; 0: never set
  login,      \* the hash the login in progress has read; it holds the number's lock
  trading,     \* identity and seller access are ACTIVE
  resets      \* how often the password was reset, from 1 on

accountVars == <<challenge, proved, session, password, login, trading, resets>>

\* since: how many resets there were when the code was sent, or the password set.
ChallengeRow ==
  [id : Challenges, audience : {"PUBLIC", "PASSWORD_RESET"}, guesses : 0 .. MaxGuesses,
   consumed : BOOLEAN, voided : BOOLEAN, over : BOOLEAN, since : Nat]
SessionRow == [id : Sessions, since : Nat]

AccountTypeOK ==
  /\ challenge \subseteq ChallengeRow
  /\ proved \subseteq Challenges
  /\ session \subseteq SessionRow
  /\ password \in Nat /\ login \in Nat /\ resets \in Nat
  /\ trading \in BOOLEAN

AccountInit ==
  /\ challenge = {} /\ proved = {} /\ session = {}
  /\ password = 0 /\ login = 0 /\ resets = 1
  /\ trading = TRUE

LoggingIn == login # 0
ChallengeBecomes(c, row) == challenge' = (challenge \ {c}) \cup {row}
CodeCounts(c) == ~c.consumed /\ ~c.over /\ c.guesses < MaxGuesses
Opens(since) ==
  \E i \in Sessions :
    /\ \A s \in session : s.id # i
    /\ session' = session \cup {[id |-> i, since |-> since]}

\* requestOtp and requestRecovery; the count of recent requests is the bound of
\* the model.
RequestCode(i, audience) ==
  /\ ~LoggingIn
  /\ \A c \in challenge : c.id # i
  /\ challenge' = challenge \cup
       {[id |-> i, audience |-> audience, guesses |-> 0, consumed |-> FALSE,
         voided |-> FALSE, over |-> FALSE, since |-> resets]}
  /\ UNCHANGED <<proved, session, password, login, trading, resets>>
CodeIsOver(c) ==
  /\ ~c.over
  /\ ChallengeBecomes(c, [c EXCEPT !.over = TRUE])
  /\ UNCHANGED <<proved, session, password, login, trading, resets>>
\* A wrong code, for either purpose.
GuessCode(c) ==
  /\ CodeCounts(c)
  /\ c.audience = "PASSWORD_RESET" => ~LoggingIn
  /\ ChallengeBecomes(c, [c EXCEPT !.guesses = @ + 1])
  /\ UNCHANGED <<proved, session, password, login, trading, resets>>

\* consumeValidChallenge; findOrCreateIdentity finds the identity.
ConsumeCode(c) ==
  /\ c.audience = "PUBLIC" /\ CodeCounts(c)
  /\ ChallengeBecomes(c, [c EXCEPT !.consumed = TRUE, !.guesses = @ + 1])
  /\ proved' = proved \cup {c.id}
  /\ UNCHANGED <<session, password, login, trading, resets>>
\* Mutation of SaveSession: the code is not looked at again.
SaveAnySession(c) ==
  /\ c.id \in proved
  /\ Opens(c.since)
  /\ proved' = proved \ {c.id}
  /\ UNCHANGED <<challenge, password, login, trading, resets>>
SaveSession(c) ==
  /\ c.id \in proved
  /\ ~c.voided /\ ~c.over
  /\ Opens(c.since)
  /\ proved' = proved \ {c.id}
  /\ UNCHANGED <<challenge, password, login, trading, resets>>
\* saveSession refuses, or the process goes down.
LoseProof(c) ==
  /\ c.id \in proved
  /\ proved' = proved \ {c.id}
  /\ UNCHANGED <<challenge, session, password, login, trading, resets>>

\* login up to the comparison of the password, which matches.
BeginLogin ==
  /\ ~LoggingIn
  /\ trading /\ password # 0
  /\ login' = password
  /\ UNCHANGED <<challenge, proved, session, password, trading, resets>>
EndLogin ==
  /\ LoggingIn
  /\ trading /\ password = login
  /\ Opens(login)
  /\ login' = 0
  /\ UNCHANGED <<challenge, proved, password, trading, resets>>
FailLogin ==
  /\ LoggingIn
  /\ login' = 0
  /\ UNCHANGED <<challenge, proved, session, password, trading, resets>>

Enroll ==
  /\ session # {} /\ trading /\ password = 0
  /\ password' = resets
  /\ UNCHANGED <<challenge, proved, session, login, trading, resets>>

\* reset, one transaction under both locks.
Reset(c) ==
  /\ c.audience = "PASSWORD_RESET" /\ CodeCounts(c)
  /\ ~LoggingIn
  /\ trading /\ password # 0
  /\ resets <= ResetBound
  /\ resets' = resets + 1
  /\ password' = resets + 1
  /\ challenge' = {[d EXCEPT !.voided = TRUE, !.consumed = TRUE] : d \in challenge}
  /\ session' = {}
  /\ UNCHANGED <<proved, login, trading>>
\* The code is spent although there is nothing to reset.
ResetNothing(c) ==
  /\ c.audience = "PASSWORD_RESET" /\ CodeCounts(c)
  /\ ~LoggingIn
  /\ ~trading \/ password = 0
  /\ ChallengeBecomes(c, [c EXCEPT !.consumed = TRUE, !.guesses = @ + 1])
  /\ UNCHANGED <<proved, session, password, login, trading, resets>>

\* revokeSession, or the end of its days.
EndSession(s) ==
  /\ session' = session \ {s}
  /\ UNCHANGED <<challenge, proved, password, login, trading, resets>>
\* revokeAllSessions of a session's owner, revokePublicSessions by the staff.
EndAllSessions ==
  /\ session # {}
  /\ session' = {}
  /\ UNCHANGED <<challenge, proved, password, login, trading, resets>>

\* The seller's access or the identity is suspended or restored.
SwitchSeller ==
  /\ trading' = ~trading
  /\ UNCHANGED <<challenge, proved, session, password, login, resets>>

AccountNext ==
  \/ \E i \in Challenges, audience \in {"PUBLIC", "PASSWORD_RESET"} :
       RequestCode(i, audience)
  \/ \E c \in challenge :
       \/ CodeIsOver(c) \/ GuessCode(c)
       \/ ConsumeCode(c) \/ SaveSession(c) \/ LoseProof(c)
       \/ Reset(c) \/ ResetNothing(c)
  \/ BeginLogin \/ EndLogin \/ FailLogin \/ Enroll
  \/ \E s \in session : EndSession(s)
  \/ EndAllSessions
  \/ SwitchSeller

AccountSpec == AccountInit /\ [][AccountNext]_accountVars

\* Whatever was on its way when the password was reset: no session lives on, or is
\* opened later, that rests on a code or a password from before.
SessionsFollowResets == \A s \in session : s.since = resets
=============================================================================
