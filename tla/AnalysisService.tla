---------------------------- MODULE AnalysisService ----------------------------
(***************************************************************************)
(* The observe-only HTTP service (runtime/http.py): one thread per         *)
(* connection, which is kept alive from one request to the next, and one   *)
(* detector per batch, fed line by line (ingestion/jsonl.py,               *)
(* detection/pipeline.py, features/session.py).                            *)
(*                                                                         *)
(* The bytes of a connection are a sequence of tokens: the head of a       *)
(* request, up to its empty line, then the lines of its body.  Clients     *)
(* send what a script says, wait for the answer before they send the next  *)
(* request, and may stop sending, or hang up, at any point.  What an       *)
(* answer leaves unread of a body is read as the next request.             *)
(*                                                                         *)
(* Heads arrive whole, and header lines are fewer than the library's limit.*)
(* A line that Content-Length cuts is two lines of the body: what is       *)
(* before the cut, and what is after it.                                   *)
(***************************************************************************)
EXTENDS SessionFeatureState

CONSTANTS
  Connections,
  Scripts,          \* what the clients may send: requests for each connection
  AnalysisEnabled,  \* a token is configured
  MaxBatchEvents    \* max_batch_events

(* What the head of a request says.  "odd" is a token that is not ASCII; length
   is the Content-Length header, which announces so many lines if it is good. *)
RequestHead ==
  [route : {"get", "put", "analyze", "elsewhere"}, token : {"good", "wrong", "odd"},
   ndjson : BOOLEAN, length : {"good", "missing", "invalid", "excessive"}, lines : Nat]

(* The lines of a batch.  "malformed" stands for whatever raises ParseError
   but the length: no JSON, no object, a field that is missing or no good.  A
   line may also read as the head of a request, short of its empty line: it is
   no JSON, but asks for something if it is taken for a request. *)
Blank == [other |-> "blank"]
Binary == [other |-> "binary"]       \* not UTF-8
Malformed == [other |-> "malformed"]
RequestLines == [asks : RequestHead]
BadLines == [other : {"malformed", "long"}] \cup RequestLines

(* A record that raises something else: ValueError from urlsplit in _safe_path,
   UnicodeEncodeError from encode in _request_id. *)
Raising == [other |-> "raising"]

Lines == Event \cup BadLines \cup {Blank, Binary, Raising}

(* What a line may look like that a client breaks off; a blank piece is as good
   as none. *)
Pieces == {Malformed, Binary}

Request == [head : RequestHead, body : Seq(Lines)]

ASSUME ServiceAssumption ==
  /\ Scripts \subseteq [Connections -> Seq(Request)]
  /\ AnalysisEnabled \in BOOLEAN
  /\ MaxBatchEvents \in Nat \ {0}

VARIABLES
  script,      \* the requests each client has to send
  sent,        \* how many of them it has begun to send
  unsent,      \* lines of the last one it has still to send
  hungUp,      \* clients that send no more
  wire,        \* tokens that have been sent and not read
  stage,       \* what each handler thread is about to do
  request,     \* the head of the request it is working on
  taken,       \* the body it has read
  batch,       \* the lines of it that are left to analyse
  session,     \* the histories of its detector
  detections,  \* of the batch, so far
  answers      \* what it has answered

clientVars == <<script, sent, unsent, hungUp>>
handlerVars == <<stage, request, taken, batch, session, detections>>
vars == <<clientVars, wire, handlerVars, answers>>

Health == [route |-> "get", token |-> "wrong", ndjson |-> FALSE, length |-> "missing",
           lines |-> 0]
NoRequest == [head |-> Health, body |-> <<>>]

Init ==
  /\ script \in Scripts
  /\ sent = [p \in Connections |-> 0]
  /\ unsent = [p \in Connections |-> <<>>]
  /\ hungUp = {}
  /\ wire = [p \in Connections |-> <<>>]
  /\ stage = [p \in Connections |-> "listening"]
  /\ request = [p \in Connections |-> Health]
  /\ taken = [p \in Connections |-> <<>>]
  /\ batch = [p \in Connections |-> <<>>]
  /\ session = [p \in Connections |-> NewSession]
  /\ detections = [p \in Connections |-> <<>>]
  /\ answers = [p \in Connections |-> <<>>]

-----------------------------------------------------------------------------
(* Clients. *)
Connected(p) == p \notin hungUp /\ stage[p] # "closed"

SendHead(p) ==
  /\ Connected(p)
  /\ unsent[p] = <<>>
  /\ sent[p] <= Len(answers[p])
  /\ sent[p] < Len(script[p])
  /\ LET r == script[p][sent[p] + 1]
     IN /\ wire' = [wire EXCEPT ![p] = Append(@, [head |-> r.head])]
        /\ unsent' = [unsent EXCEPT ![p] = r.body]
  /\ sent' = [sent EXCEPT ![p] = @ + 1]
  /\ UNCHANGED <<script, hungUp, handlerVars, answers>>

SendLine(p) ==
  /\ Connected(p)
  /\ unsent[p] # <<>>
  /\ wire' = [wire EXCEPT ![p] = Append(@, [line |-> Head(unsent[p])])]
  /\ unsent' = [unsent EXCEPT ![p] = Tail(@)]
  /\ UNCHANGED <<script, sent, hungUp, handlerVars, answers>>

(* A client may stop in the middle of a line. *)
HangUp(p) ==
  /\ Connected(p)
  /\ hungUp' = hungUp \cup {p}
  /\ \/ UNCHANGED wire
     \/ /\ unsent[p] # <<>>
        /\ \E piece \in Pieces : wire' = [wire EXCEPT ![p] = Append(@, [line |-> piece])]
  /\ UNCHANGED <<script, sent, unsent, handlerVars, answers>>

-----------------------------------------------------------------------------
(* The thread of a connection.  The operators with a suffix _Something are *)
(* slips the code could have made; nothing uses them, and each breaks a     *)
(* property below if it is put in the place of the operator it is named     *)
(* after.                                                                  *)

GoTo(p, label) == stage' = [stage EXCEPT ![p] = label]

(* _json: an answer, after which the connection is kept alive.  found are the
   detections it carries. *)
Answer(p, status, found) ==
  answers' = [answers EXCEPT ![p] = Append(@, [status |-> status, detections |-> found])]

HasThread_OneForAll(p) == \A q \in Connections \ {p} : stage[q] = "listening"
(* ThreadingHTTPServer: no connection waits for another. *)
HasThread(p) == TRUE

Reads(p) == HasThread(p) /\ wire[p] # <<>>

(* The answer to a request before its body is looked at: "body" if there is
   none, "none" if the thread ends without one, because compare_digest raises
   TypeError.  (do_GET, do_POST, _authorized and the first half of _read_body) *)
EarlyAnswer(h) ==
  IF h.route = "get" THEN "ok"
  ELSE IF h.route = "put" THEN "method_not_allowed"
  ELSE IF h.route = "elsewhere" THEN "not_found"
  ELSE IF ~AnalysisEnabled THEN "disabled"
  ELSE IF h.token = "odd" THEN "none"
  ELSE IF h.token = "wrong" THEN "unauthorized"
  ELSE IF ~h.ndjson THEN "content_type"
  ELSE IF h.length \in {"missing", "invalid"} THEN "content_length"
  ELSE IF h.length = "excessive" THEN "exceeds_limit"
  ELSE "body"

(* The head of a request has been read. *)
Serve(p, h) ==
  /\ request' = [request EXCEPT ![p] = h]
  /\ CASE EarlyAnswer(h) = "none" -> GoTo(p, "closed") /\ UNCHANGED answers
       [] EarlyAnswer(h) = "body" -> GoTo(p, "reading") /\ UNCHANGED answers
       [] OTHER -> GoTo(p, "listening") /\ Answer(p, EarlyAnswer(h), <<>>)

(* A head is next on the wire. *)
Dispatch(p) ==
  /\ stage[p] = "listening" /\ Reads(p)
  /\ "head" \in DOMAIN Head(wire[p])
  /\ wire' = [wire EXCEPT ![p] = Tail(@)]
  /\ Serve(p, Head(wire[p]).head)
  /\ UNCHANGED <<clientVars, taken, batch, session, detections>>

(* What is next is a line of a body that nobody has read.  The library takes it
   for the first line of a request: *)
LineIsNext(p) ==
  /\ stage[p] = "listening" /\ Reads(p)
  /\ "line" \in DOMAIN Head(wire[p])
  /\ wire' = [wire EXCEPT ![p] = Tail(@)]

(* it refuses one that is none, and closes the connection; *)
RefuseLine(p) ==
  /\ LineIsNext(p)
  /\ Head(wire[p]).line \notin RequestLines
  /\ IF Head(wire[p]).line = Blank THEN UNCHANGED answers
     ELSE Answer(p, "bad_request", <<>>)
  /\ GoTo(p, "closed")
  /\ UNCHANGED <<clientVars, request, taken, batch, session, detections>>

(* after one that is, it takes what follows for headers, *)
TakeLine(p) ==
  /\ LineIsNext(p)
  /\ Head(wire[p]).line \in RequestLines
  /\ request' = [request EXCEPT ![p] = Head(wire[p]).line.asks]
  /\ GoTo(p, "headers")
  /\ UNCHANGED <<clientVars, taken, batch, session, detections, answers>>

(* up to the next empty line, which may be that of the client's next head, or
   the end of what the client sends. *)
ReadHeaders(p) ==
  /\ stage[p] = "headers"
  /\ wire[p] # <<>> \/ p \in hungUp
  /\ wire' = [wire EXCEPT ![p] = IF @ = <<>> THEN @ ELSE Tail(@)]
  /\ IF wire[p] = <<>> \/ Head(wire[p]) = [line |-> Blank] \/ "head" \in DOMAIN Head(wire[p])
       THEN Serve(p, request[p])
       ELSE UNCHANGED <<stage, request, answers>>
  /\ UNCHANGED <<clientVars, taken, batch, session, detections>>

(* Nothing is left of a connection whose client has hung up. *)
Close(p) ==
  /\ stage[p] = "listening" /\ HasThread(p)
  /\ wire[p] = <<>> /\ p \in hungUp
  /\ GoTo(p, "closed")
  /\ UNCHANGED <<clientVars, wire, request, taken, batch, session, detections, answers>>

BodyLength_OneShort(h) == IF h.lines = 0 THEN 0 ELSE h.lines - 1
(* Content-Length, in lines. *)
BodyLength(h) == h.lines

Detector_Kept(p) == session[p]
(* _analyze makes a detector of its own for the batch. *)
Detector(p) == NewSession

(* A token that is read as part of a body; a head is no JSON. *)
AsLine(token) == IF "line" \in DOMAIN token THEN token.line ELSE Malformed

(* rfile.read returns as much as was announced, or what there is of it when the
   client hangs up. *)
ReadBody(p) ==
  /\ stage[p] = "reading"
  /\ Len(wire[p]) >= BodyLength(request[p]) \/ p \in hungUp
  /\ LET n == Min({BodyLength(request[p]), Len(wire[p])})
         body == [i \in 1..n |-> AsLine(wire[p][i])]
     IN /\ wire' = [wire EXCEPT ![p] = SubSeq(@, n + 1, Len(@))]
        /\ IF Binary \in Elements(body)
             THEN /\ Answer(p, "not_utf8", <<>>)
                  /\ GoTo(p, "listening")
                  /\ UNCHANGED <<taken, batch, session, detections>>
             ELSE /\ GoTo(p, "analyzing")
                  /\ taken' = [taken EXCEPT ![p] = body]
                  /\ batch' = [batch EXCEPT ![p] = body]
                  /\ session' = [session EXCEPT ![p] = Detector(p)]
                  /\ detections' = [detections EXCEPT ![p] = <<>>]
                  /\ UNCHANGED answers
  /\ UNCHANGED <<clientVars, request>>

-----------------------------------------------------------------------------
(* _analyze: one line after the other until the first that is in the way. *)
Analyzes(p) == stage[p] = "analyzing"

(* detect: the features of an event are those of its client's history. *)
Detection(s, e) == [client |-> e.client, history |-> s.histories[e.client]]

Skip(p) ==
  /\ Analyzes(p) /\ batch[p] # <<>> /\ Head(batch[p]) = Blank
  /\ batch' = [batch EXCEPT ![p] = Tail(@)]
  /\ UNCHANGED <<clientVars, wire, stage, request, taken, session, detections, answers>>

Detect(p) ==
  /\ Analyzes(p) /\ batch[p] # <<>> /\ Head(batch[p]) \in Event
  /\ Len(detections[p]) < MaxBatchEvents
  /\ LET e == Head(batch[p])
         s == Update(session[p], e)
     IN /\ session' = [session EXCEPT ![p] = s]
        /\ detections' = [detections EXCEPT ![p] = Append(@, Detection(s, e))]
  /\ batch' = [batch EXCEPT ![p] = Tail(@)]
  /\ UNCHANGED <<clientVars, wire, stage, request, taken, answers>>

(* do_POST catches ParseError and ServiceRequestError; what else a line raises
   ends the thread, and the connection with it, without an answer. *)
Raise(p) ==
  /\ Analyzes(p) /\ batch[p] # <<>> /\ Head(batch[p]) = Raising
  /\ GoTo(p, "closed")
  /\ UNCHANGED <<clientVars, wire, request, taken, batch, session, detections, answers>>

(* The status that ends the analysis at this point. *)
Ends(p, status) ==
  CASE status = "too_many_events" ->
         /\ batch[p] # <<>> /\ Head(batch[p]) \in Event
         /\ Len(detections[p]) >= MaxBatchEvents
    [] status = "unprocessable" -> batch[p] # <<>> /\ Head(batch[p]) \in BadLines
    [] status = "no_events" -> batch[p] = <<>> /\ detections[p] = <<>>
    [] status = "ok" -> batch[p] = <<>> /\ detections[p] # <<>>

Statuses == {"too_many_events", "unprocessable", "no_events", "ok"}

Finish(p) ==
  /\ Analyzes(p)
  /\ \E status \in Statuses :
       /\ Ends(p, status)
       /\ Answer(p, status, IF status = "ok" THEN detections[p] ELSE <<>>)
  /\ GoTo(p, "listening")
  /\ UNCHANGED <<clientVars, wire, request, taken, batch, session, detections>>

ThreadStep(p) ==
  \/ Dispatch(p) \/ RefuseLine(p) \/ TakeLine(p) \/ ReadHeaders(p) \/ Close(p)
  \/ ReadBody(p) \/ Skip(p) \/ Detect(p) \/ Raise(p) \/ Finish(p)

Next == \E p \in Connections : SendHead(p) \/ SendLine(p) \/ HangUp(p) \/ ThreadStep(p)

(* A thread that can take a step takes one; nothing is expected of clients. *)
Spec == Init /\ [][Next]_vars /\ \A p \in Connections : WF_vars(ThreadStep(p))

-----------------------------------------------------------------------------
(* The type invariant: every variable keeps the values the code can give it,
   and no more clients are tracked than there is room for. *)
TypeOK ==
  /\ script \in [Connections -> Seq(Request)]
  /\ \A p \in Connections :
       /\ sent[p] \in 0..Len(script[p])
       /\ stage[p] \in {"listening", "headers", "reading", "analyzing", "closed"}
       /\ session[p] \in SessionState
       /\ Len(session[p].clients) <= MaxClients
       /\ Len(detections[p]) = Len(session[p].log)
       /\ Len(detections[p]) <= MaxBatchEvents
       /\ Len(batch[p]) <= Len(taken[p])

(***************************************************************************)
(* However late the events of a client arrive, its history is what an      *)
(* unbounded record of its session would give: the last MaxEvents events   *)
(* of the window before its latest timestamp.  (session.py:52-60, the      *)
(* comment on late log arrivals)                                           *)
(***************************************************************************)
HistoryIsRecentWindow ==
  \A p \in Connections : \A c \in Clients :
    session[p].histories[c] = RecentWindow(session[p].log, c)

(***************************************************************************)
(* The clients that are tracked are those whose session has not been       *)
(* evicted, and the metrics account for every session: it is tracked or    *)
(* was evicted.  (session.py:45-49, 64-71)                                 *)
(***************************************************************************)
SessionsAreAccounted ==
  \A p \in Connections :
    LET s == session[p]
    IN /\ Elements(s.clients) = {c \in Clients : SessionOf(s.log, c) # {}}
       /\ s.evicted + Len(s.clients)
            = Cardinality({i \in DOMAIN s.log : StartsSession(s.log, i)})

-----------------------------------------------------------------------------
(* What the answer to a batch should be, from its lines alone. *)
Positions(body, S) == {i \in DOMAIN body : body[i] \in S}

(* The lines that end the analysis: a bad one, one that raises something else,
   and the event after the limit. *)
Bad(body) == Positions(body, BadLines)
Raises(body) == Positions(body, {Raising})
EventsBefore(body, i) == Cardinality({j \in Positions(body, Event) : j < i})
Over(body) == {i \in Positions(body, Event) : EventsBefore(body, i) = MaxBatchEvents}

(* The events among its lines. *)
Log(body) ==
  [n \in 1..Cardinality(Positions(body, Event)) |->
     body[CHOOSE i \in Positions(body, Event) : EventsBefore(body, i) = n - 1]]

(* The detections of a log: each event with the history up to it. *)
Found(log) ==
  [i \in DOMAIN log |->
     [client |-> log[i].client, history |-> RecentWindow(SubSeq(log, 1, i), log[i].client)]]

Verdict(body) ==
  LET log == Log(body)
      stops == Bad(body) \cup Raises(body) \cup Over(body)
      status == IF Binary \in Elements(body) THEN "not_utf8"
                ELSE IF stops # {}
                  THEN IF Min(stops) \in Bad(body) THEN "unprocessable"
                       ELSE IF Min(stops) \in Raises(body) THEN "none"
                       ELSE "too_many_events"
                ELSE IF log = <<>> THEN "no_events" ELSE "ok"
  IN [status |-> status, detections |-> IF status = "ok" THEN Found(log) ELSE <<>>]

(* What the thread may be given to read of the body of r. *)
Heard(p, r) ==
  LET whole == {n \in 0..Len(r.body) : n = r.head.lines}
      short == IF p \in hungUp THEN {n \in 0..Len(r.body) : n < r.head.lines} ELSE {}
  IN {SubSeq(r.body, 1, n) : n \in whole \cup short}
       \cup {Append(SubSeq(r.body, 1, n), piece) : n \in short \ {Len(r.body)}, piece \in Pieces}

(* How many lines the thread reads after a head, and what of the body of r they
   leave unread. *)
ReadsLines(h) == IF EarlyAnswer(h) = "body" THEN h.lines ELSE 0
LeftUnread(r) == SubSeq(r.body, ReadsLines(r.head) + 1, Len(r.body))

(* No answer to an earlier request left anything unread. *)
InStep(p, i) == \A j \in DOMAIN script[p] : j < i => LeftUnread(script[p][j]) = <<>>

(* The lines of r that are left to be taken for requests. *)
AsksFor(r) == Elements(LeftUnread(r)) \cap RequestLines

RightAnswer(p, i) ==
  LET r == script[p][i]
      a == answers[p][i]
  IN IF EarlyAnswer(r.head) # "body"
       THEN a = [status |-> EarlyAnswer(r.head), detections |-> <<>>]
       ELSE \E lines \in Heard(p, r) : a = Verdict(lines)

AnswerMatches(p, i) ==
  /\ InStep(p, i) => i <= sent[p] /\ RightAnswer(p, i)
  /\ answers[p][i].status = "bad_request" => i = Len(answers[p]) /\ stage[p] = "closed"
  /\ i > sent[p] => \/ answers[p][i].status = "bad_request"
                    \/ \E j \in 1..sent[p] : AsksFor(script[p][j]) # {}

(***************************************************************************)
(* As long as no answer has left a part of a body unread, the i-th answer   *)
(* on a connection is the answer to its i-th request, and depends on        *)
(* nothing but that request: not on earlier or simultaneous batches.  A     *)
(* body cut short by its client, or by its Content-Length, is judged as far *)
(* as it goes.  What an answer leaves unread is refused, and that is the    *)
(* connection's last answer; there are never more answers to requests than  *)
(* the client has sent requests, unless a line left unread reads as one.    *)
(* (http.py:79-152, README.md: "Per-batch session state")                   *)
(***************************************************************************)
AnswersMatchRequests == \A p \in Connections : \A i \in DOMAIN answers[p] : AnswerMatches(p, i)

(* The client has sent all that the thread may wait for: no more is announced
   than was sent, by a request or by a line that is taken for one. *)
SentWhole(r) ==
  /\ EarlyAnswer(r.head) = "body" => r.head.lines <= Len(r.body)
  /\ \A line \in AsksFor(r) : EarlyAnswer(line.asks) # "body"

Waits(p) ==
  /\ sent[p] > Len(answers[p]) /\ unsent[p] = <<>> /\ stage[p] # "closed"
  /\ \A j \in 1..sent[p] : SentWhole(script[p][j])

(***************************************************************************)
(* A request that has been sent whole is answered, or its connection        *)
(* closed, whatever the clients of other connections do or fail to do.      *)
(* (http.py:28-36)                                                         *)
(***************************************************************************)
RequestsAreAnswered == \A p \in Connections : Waits(p) ~> ~Waits(p)
=============================================================================
