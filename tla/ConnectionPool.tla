--------------------------- MODULE ConnectionPool ---------------------------
(***************************************************************************)
(* The pool of database connections every statement of the process runs    *)
(* on.  The data source sets neither its size nor a time limit: whoever    *)
(* asks an exhausted pool waits, in turn, for as long as it takes.         *)
(***************************************************************************)
EXTENDS Integers, FiniteSets, Sequences, SequencesExt

CONSTANT Size  \* connections of the pool: 10 unless configured

ASSUME SizeAssumption == Size \in Nat \ {0}

VARIABLES
    held,   \* the tasks that have a connection
    queue   \* the tasks that wait for one

Empty == held = {} /\ queue = <<>>

Asked(t) == t \in held \cup Range(queue)

Ask(t) ==
    \/ Cardinality(held) < Size /\ held' = held \cup {t} /\ UNCHANGED queue
    \/ Cardinality(held) >= Size /\ queue' = Append(queue, t) /\ UNCHANGED held

Release(t) ==
    \/ queue = <<>> /\ held' = held \ {t} /\ UNCHANGED queue
    \/ queue # <<>> /\ held' = (held \ {t}) \cup {Head(queue)} /\ queue' = Tail(queue)

\* No task waits twice or with a connection in hand, and nobody waits for a
\* connection that is free.
PoolOK ==
    /\ IsFiniteSet(held) /\ Cardinality(held) <= Size
    /\ \A i \in 1..Len(queue) :
          queue[i] \notin held /\ \A j \in 1..Len(queue) : queue[i] = queue[j] => i = j
    /\ queue # <<>> => Cardinality(held) = Size
=============================================================================
