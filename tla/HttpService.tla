---------------------------- MODULE HttpService ----------------------------
(***************************************************************************)
(* What the server promises its clients, with no thread, descriptor or     *)
(* loop in sight: each connection is opened, gets one indivisible answer   *)
(* that its own request is due under the configured routes, and is closed. *)
(*                                                                         *)
(* The service may go down at any moment.  Before that it may announce     *)
(* that it is stopping; from then on answers are no longer promised to be  *)
(* the right ones.                                                         *)
(***************************************************************************)
EXTENDS Handlers

CONSTANTS Conns, Requests, Malformed, NoInput, Routes, UrlMatches(_, _)

VARIABLES
  up,        \* the service is running
  stopping,  \* it has begun to stop
  stage,     \* of each connection: "idle", "open", "lost" or "closed"
  asked,     \* what each client has sent
  answer     \* what each client had received when its connection was closed

svars == <<up, stopping, stage, asked, answer>>

-----------------------------------------------------------------------------
\* The routes of the configuration apply in order; the first one with the
\* request's method whose pattern matches its path serves it.
Applies(request, route) ==
  request.method = route.method /\ UrlMatches(request.path, route.path)

Transcript(outcome) == outcome.out \o ErrorPages(outcome.err)

\* The answers a request is due: the responses of the handler of the first
\* route that applies and the page for its error; 404 if no route applies;
\* nothing for bytes that are no request.
Expected(i) ==
  IF i \notin Requests THEN { <<>> }
  ELSE IF \E k \in DOMAIN Routes : Applies(i, Routes[k])
       THEN UNION { { Transcript(o) : o \in HandlerOutcomes(Routes[k]) } :
                    k \in { k \in DOMAIN Routes :
                              /\ Applies(i, Routes[k])
                              /\ \A l \in 1 .. k - 1 : ~ Applies(i, Routes[l]) } }
       ELSE { ErrorPages(404) }

-----------------------------------------------------------------------------
SInit ==
  /\ up = TRUE
  /\ stopping = FALSE
  /\ stage = [c \in Conns |-> "idle"]
  /\ asked = [c \in Conns |-> NoInput]
  /\ answer = [c \in Conns |-> <<>>]

Open(c) ==
  /\ up /\ stage[c] = "idle"
  /\ stage' = [stage EXCEPT ![c] = "open"]
  /\ UNCHANGED <<up, stopping, asked, answer>>

Ask(c) ==
  /\ up /\ stage[c] # "idle" /\ asked[c] = NoInput
  /\ \E i \in Requests \cup {Malformed} : asked' = [asked EXCEPT ![c] = i]
  /\ UNCHANGED <<up, stopping, stage, answer>>

\* The answer is chosen and the connection closed in one step.
Answer(c) ==
  /\ up /\ stage[c] = "open" /\ asked[c] # NoInput
  /\ stage' = [stage EXCEPT ![c] = "closed"]
  /\ answer' = [answer EXCEPT ![c] = answer'[c]]
  /\ answer'[c] \in Expected(asked[c]) \/ (stopping /\ answer'[c] \in Seq(Response))
  /\ UNCHANGED <<up, stopping, asked>>

\* Resources for the connection could not be had: it is never served.
Lose(c) ==
  /\ up /\ stage[c] = "open"
  /\ stage' = [stage EXCEPT ![c] = "lost"]
  /\ UNCHANGED <<up, stopping, asked, answer>>

BeginStop ==
  /\ up /\ ~ stopping
  /\ stopping' = TRUE
  /\ UNCHANGED <<up, stage, asked, answer>>

GoDown ==
  /\ up
  /\ up' = FALSE
  /\ UNCHANGED <<stopping, stage, asked, answer>>

SNext ==
  \/ BeginStop
  \/ GoDown
  \/ \E c \in Conns : Open(c) \/ Ask(c) \/ Answer(c) \/ Lose(c)

SSpec == SInit /\ [][SNext]_svars
=============================================================================
