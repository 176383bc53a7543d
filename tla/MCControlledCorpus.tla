-------------------------- MODULE MCControlledCorpus --------------------------
(* ControlledCorpus and BaselineLadder for TLC.                                *)
EXTENDS BaselineLadder, TLC
CONSTANTS t1, t2, a, b, h, g

S(automated, task, window, person, shape) ==
  [automated |-> automated, task |-> task, window |-> window, person |-> person, shape |-> shape]

(* A corpus with these columns.  What is not given to the preflight does not    *)
(* matter to it, and need not vary.                                            *)
Collected(automated, task, window, person, shape) ==
  [sessions |-> [i \in DOMAIN task |->
                   S(automated[i], task[i], window[i], person[i], shape[i])],
   windows |-> \E i \in DOMAIN task : window[i] # 3,
   groups |-> \E i \in DOMAIN task : person[i] # b]

(* Two to four sessions with every choice of tasks, windows and people; the     *)
(* automated ones come first, and the shape follows the task.                  *)
Small ==
  UNION {{Collected([i \in 1..n |-> i <= n \div 2], task, window, person,
                    [i \in 1..n |-> IF task[i] = t1 THEN 0 ELSE 1]) :
            task \in [1..n -> {t1, t2}],
            window \in [1..n -> 1..2] \cup {[i \in 1..n |-> 3]},
            person \in [1..n -> {a, h}] \cup {[i \in 1..n |-> b]}} : n \in 2..4}

(* Six sessions, so that the random holdout can have both classes and a window  *)
(* several others before it, with people who come more than once.              *)
Large ==
  {Collected([i \in 1..6 |-> i % 2 = 1], task, window, person, shape) :
     task \in {[i \in 1..6 |-> t1], <<t1, t1, t2, t2, t1, t1>>},
     window \in {<<1, 1, 2, 2, 3, 3>>, [i \in 1..6 |-> 3]},
     person \in [1..6 -> {a, h}] \cup {<<a, h, a, g, h, g>>, [i \in 1..6 |-> b]},
     shape \in {[i \in 1..6 |-> 0], [i \in 1..6 |-> i % 3]}}

(* Two corpora of the same size, the people in another order. *)
Pair(p, q, r, s) ==
  [sessions |-> <<S(TRUE, t1, 1, p, 0), S(FALSE, t1, 1, q, 1),
                  S(TRUE, t2, 2, r, 0), S(FALSE, t2, 2, s, 1)>>,
   windows |-> TRUE, groups |-> TRUE]
Pairs == {Pair(a, h, b, g), Pair(h, a, g, b), Pair(a, h, a, h), Pair(b, a, g, h)}

AnyThenPairs == <<Small \cup Large, Pairs>>
PairsTwice == <<Pairs, Pairs>>
=============================================================================
