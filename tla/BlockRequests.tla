--------------------------- MODULE BlockRequests ---------------------------
(***************************************************************************)
(* Block-IP requests of one control session (client/internal/client:       *)
(* handleLocalBlockIP in api.go, submitBlockIP and its helpers in          *)
(* client.go).  Local HTTP requests register a channel under a request id, *)
(* send over the control connection and wait for the session's reader, for *)
(* the end of the session or for their own timeout.  The server's side is  *)
(* external: it may answer late, twice or not at all.                      *)
(***************************************************************************)
EXTENDS Naturals, FiniteSets

CONSTANTS Reqs,         \* local HTTP requests
          MaxAnswers,   \* bound: answers the server sends to one request
          None

ASSUME BlockAssumption == MaxAnswers \in Nat /\ None \notin Reqs

VARIABLES
    pc,       \* the request: "idle", "registered", "waiting", "returned"
    entries,  \* session.blockRequests
    chan,     \* answers in the channel of each request, which holds one
    conn,     \* the control connection: "dialling", "open", "closed"
    run,      \* session.run: "serving", "failing" (deferred calls), "over"
    reader,   \* request whose channel the reader took, None otherwise
    failing,  \* requests failPendingBlockRequests has yet to answer
    asked,    \* requests that reached the server
    answers   \* answers the server may still send

blockvars == <<pc, entries, chan, conn, run, reader, failing, asked, answers>>

BlockTypeOK ==
    /\ pc \in [Reqs -> {"idle", "registered", "waiting", "returned"}]
    /\ entries \subseteq Reqs /\ failing \subseteq Reqs /\ asked \subseteq Reqs
    /\ chan \in [Reqs -> 0..1]
    /\ conn \in {"dialling", "open", "closed"} /\ run \in {"serving", "failing", "over"}
    /\ reader \in Reqs \cup {None}
    /\ answers \in [Reqs -> 0..MaxAnswers]

BlockInit ==
    /\ pc = [r \in Reqs |-> "idle"]
    /\ entries = {} /\ failing = {} /\ asked = {}
    /\ chan = [r \in Reqs |-> 0]
    /\ conn = "dialling" /\ run = "serving" /\ reader = None
    /\ answers = [r \in Reqs |-> MaxAnswers]

-----------------------------------------------------------------------------
(* The requests.                                                           *)

\* handleLocalBlockIP finds the session published and registers a channel;
\* a session that is over may still be in its hands.
Submit(r) ==
    /\ pc[r] = "idle"
    /\ pc' = [pc EXCEPT ![r] = "registered"]
    /\ entries' = entries \cup {r}
    /\ UNCHANGED <<chan, conn, run, reader, failing, asked, answers>>

Send(r) ==
    /\ pc[r] = "registered" /\ conn = "open"
    /\ pc' = [pc EXCEPT ![r] = "waiting"]
    /\ asked' = asked \cup {r}
    /\ UNCHANGED <<entries, chan, conn, run, reader, failing, answers>>

\* No connection yet, a closed one, or a write error.
SendFails(r) ==
    /\ pc[r] = "registered"
    /\ pc' = [pc EXCEPT ![r] = "returned"]
    /\ entries' = entries \ {r}
    /\ UNCHANGED <<chan, conn, run, reader, failing, asked, answers>>

Receive(r) ==
    /\ pc[r] = "waiting" /\ chan[r] > 0
    /\ pc' = [pc EXCEPT ![r] = "returned"]
    /\ chan' = [chan EXCEPT ![r] = @ - 1]
    /\ UNCHANGED <<entries, conn, run, reader, failing, asked, answers>>

\* Mutant: the entry stays in the table.
TimesOut_Leaves(r) ==
    /\ pc[r] = "waiting"
    /\ pc' = [pc EXCEPT ![r] = "returned"]
    /\ UNCHANGED <<entries, chan, conn, run, reader, failing, asked, answers>>

\* Ten seconds passed, or the HTTP client went away.
TimesOut(r) ==
    /\ pc[r] = "waiting"
    /\ pc' = [pc EXCEPT ![r] = "returned"]
    /\ entries' = entries \ {r}
    /\ UNCHANGED <<chan, conn, run, reader, failing, asked, answers>>

-----------------------------------------------------------------------------
(* session.run.                                                            *)

Dial ==
    /\ run = "serving" /\ conn = "dialling" /\ conn' = "open"
    /\ UNCHANGED <<pc, entries, chan, run, reader, failing, asked, answers>>

\* Mutant: the channel is looked up and stays in the table.
Answer_KeepsEntry(r) ==
    /\ run = "serving" /\ reader = None /\ conn = "open"
    /\ r \in asked /\ answers[r] > 0
    /\ answers' = [answers EXCEPT ![r] = @ - 1]
    /\ reader' = IF r \in entries THEN r ELSE None
    /\ UNCHANGED <<pc, entries, chan, conn, run, failing, asked>>

\* resolveBlockRequest: take the channel out of the table ...
Answer(r) ==
    /\ run = "serving" /\ reader = None /\ conn = "open"
    /\ r \in asked /\ answers[r] > 0
    /\ answers' = [answers EXCEPT ![r] = @ - 1]
    /\ reader' = IF r \in entries THEN r ELSE None
    /\ entries' = entries \ {r}
    /\ UNCHANGED <<pc, chan, conn, run, failing, asked>>

\* ... and send; a full channel would block the reader.
Deliver ==
    /\ reader # None /\ chan[reader] = 0
    /\ chan' = [chan EXCEPT ![reader] = 1]
    /\ reader' = None
    /\ UNCHANGED <<pc, entries, conn, run, failing, asked, answers>>

\* The session ends: failPendingBlockRequests takes the whole table ...
SessionEnds ==
    /\ run = "serving" /\ reader = None
    /\ run' = IF conn = "dialling" THEN "over" ELSE "failing"
    /\ failing' = IF conn = "dialling" THEN {} ELSE entries
    /\ entries' = IF conn = "dialling" THEN entries ELSE {}
    /\ UNCHANGED <<pc, chan, conn, reader, asked, answers>>

\* Mutant: an answered request stays in the list.
FailOne_Again(r) ==
    /\ run = "failing" /\ r \in failing /\ chan[r] = 0
    /\ chan' = [chan EXCEPT ![r] = 1]
    /\ UNCHANGED <<pc, entries, conn, run, reader, failing, asked, answers>>

\* ... answers each of them, and only then is the connection closed.
FailOne(r) ==
    /\ run = "failing" /\ r \in failing /\ chan[r] = 0
    /\ chan' = [chan EXCEPT ![r] = 1]
    /\ failing' = failing \ {r}
    /\ UNCHANGED <<pc, entries, conn, run, reader, asked, answers>>

CloseConn ==
    /\ run = "failing" /\ failing = {}
    /\ run' = "over" /\ conn' = "closed"
    /\ UNCHANGED <<pc, entries, chan, reader, failing, asked, answers>>

-----------------------------------------------------------------------------
RequestStep(r) ==
    Submit(r) \/ Send(r) \/ SendFails(r) \/ Receive(r) \/ TimesOut(r) \/ Answer(r) \/ FailOne(r)

BlockNext == (\E r \in Reqs : RequestStep(r)) \/ Dial \/ Deliver \/ SessionEnds \/ CloseConn

BlockSpec == BlockInit /\ [][BlockNext]_blockvars

(* Requests and the session's goroutine run and timeouts fire; the server   *)
(* need not answer and nothing ends the session.                            *)
Fairness ==
    /\ \A r \in Reqs : /\ WF_blockvars(Send(r) \/ SendFails(r))
                       /\ WF_blockvars(Receive(r) \/ TimesOut(r)) /\ WF_blockvars(FailOne(r))
    /\ WF_blockvars(Deliver) /\ WF_blockvars(CloseConn)

FairSpec == BlockSpec /\ Fairness

-----------------------------------------------------------------------------
(* Properties.                                                             *)

\* Whoever holds a channel finds room in it: neither a duplicate answer nor
\* an answer racing the end of the session blocks the reader of the control
\* connection or the deferred calls that close it.
SenderNeverBlocks ==
    /\ reader # None => chan[reader] = 0 /\ reader \notin entries \cup failing
    /\ \A r \in failing : chan[r] = 0

\* The table holds only requests somebody still waits for.
NoForgottenEntry == \A r \in entries : pc[r] \in {"registered", "waiting"}

\* Once asked for, the end of a session and the delivery of an answer come
\* to an end, so the connection is closed.
SessionCloses == run = "failing" ~> conn = "closed"

=============================================================================
