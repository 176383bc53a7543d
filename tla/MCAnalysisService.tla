-------------------------- MODULE MCAnalysisService --------------------------
(* AnalysisService for TLC: one client alone with a batch of five events in    *)
(* any order, and two clients at once with requests of every kind.             *)
EXTENDS AnalysisService, TLC
CONSTANTS p1, p2, c1, c2, c3

(* Who the events of a log are of: all patterns of four events, up to the names *)
(* of the clients, and some of five, in which a client that was evicted comes    *)
(* back, or one that was not has more events than its history keeps.             *)
Patterns ==
  {<<c1, c1, c1, c1>>, <<c1, c1, c1, c2>>, <<c1, c1, c2, c1>>, <<c1, c1, c2, c2>>,
   <<c1, c1, c2, c3>>, <<c1, c2, c1, c1>>, <<c1, c2, c1, c2>>, <<c1, c2, c1, c3>>,
   <<c1, c2, c2, c1>>, <<c1, c2, c2, c2>>, <<c1, c2, c2, c3>>, <<c1, c2, c3, c1>>,
   <<c1, c2, c3, c2>>, <<c1, c2, c3, c3>>,
   <<c1, c2, c3, c1, c1>>, <<c1, c2, c1, c3, c2>>, <<c1, c2, c1, c3, c1>>}

LongBatches ==
  UNION {{[i \in DOMAIN who |-> [client |-> who[i], at |-> at[i]]] :
            at \in [DOMAIN who -> Times]} : who \in Patterns}

Batch == [Health EXCEPT !.route = "analyze", !.token = "good", !.ndjson = TRUE, !.length = "good"]
Announcing(n, body) == [head |-> [Batch EXCEPT !.lines = n], body |-> body]
Analyze(body) == Announcing(Len(body), body)
WithBody(h, body) == [head |-> h, body |-> body]

E(c, t) == [client |-> c, at |-> t]
Six == [i \in 1..6 |-> E(c1, 0)]
Two == <<E(c1, 3), E(c1, 0)>>
Plain == Analyze(Two)
Unauthorized == [Batch EXCEPT !.token = "wrong", !.lines = 2]
Asks(h) == [asks |-> h]

(* The first request of a connection: answered from its head, with a body or  *)
(* without, or from its body; *)
Ordinary ==
  {NoRequest, WithBody([Batch EXCEPT !.token = "odd"], Two), Plain, Analyze(<<>>),
   Analyze(<<Blank, E(c2, 1), Blank>>), Analyze(<<E(c1, 1), Binary>>),
   Analyze(<<E(c1, 1), Raising>>), Analyze(<<Asks(Health)>>), Analyze(<<[other |-> "long"]>>),
   Analyze(Append(Six, Malformed)), Analyze([Six EXCEPT ![6] = Malformed])}
  \cup {WithBody(h, Two) :
          h \in {[Batch EXCEPT !.route = "put"], [Batch EXCEPT !.route = "elsewhere"],
                 Unauthorized, [Batch EXCEPT !.ndjson = FALSE],
                 [Batch EXCEPT !.length = "missing"], [Batch EXCEPT !.length = "excessive"]}}

(* or one whose answer leaves lines unread that are empty, or ask for          *)
(* something, or that waits for more than is sent.                             *)
OutOfStep ==
  {WithBody(Unauthorized, <<Blank, E(c1, 0)>>), Announcing(1, Two), Announcing(3, Two),
   Announcing(1, <<E(c1, 1), Asks(Health)>>), Announcing(2, <<E(c1, 1), Asks(Health)>>)}
  \cup {WithBody(Unauthorized, <<Asks(h)>> \o rest) :
          h \in {Health, Unauthorized, [Batch EXCEPT !.lines = 1]},
          rest \in {<<>>, <<Blank>>, <<E(c2, 1), Blank>>, <<Blank, E(c1, 0)>>, <<Blank, Asks(Health)>>}}

MCScripts ==
  {p1 :> <<Analyze(log)>> @@ p2 :> <<>> : log \in LongBatches}
  \cup {p1 :> <<r, Plain>> @@ p2 :> <<NoRequest>> : r \in Ordinary}
  \cup {p1 :> <<r, Plain>> @@ p2 :> <<Plain>> : r \in {Plain, NoRequest, Analyze(<<E(c2, 1)>>)}}
  \cup {p1 :> <<r, s>> @@ p2 :> <<>> : r \in OutOfStep, s \in {Plain, NoRequest}}
=============================================================================
