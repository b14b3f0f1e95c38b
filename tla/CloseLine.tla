------------------------------ MODULE CloseLine ------------------------------
(***************************************************************************)
(* What the closes of a company promise, without databases, workers or     *)
(* files: an author prepares a close after the last one there is, and      *)
(* adds it only if it is still the last.  A close is added once, nobody    *)
(* takes one back, and who gave up a close has to prepare it anew.         *)
(***************************************************************************)
CONSTANTS Authors,  \* who may prepare a close: connections, or jobs
          Lines,    \* companies whose closes follow one another
          Closes,
          Nothing   \* what comes before the first close of a line

VARIABLES closed,   \* every close there is
          last,     \* of each line
          drafts    \* closes in preparation, and what each was prepared after

line == <<closed, last, drafts>>

LineInit ==
  /\ closed = {} /\ last = [l \in Lines |-> Nothing] /\ drafts = {}

\* A new draft takes the place of the one its author had.
Draft(a, c, l) ==
  /\ drafts' = {d \in drafts : d.by # a}
                \cup {[by |-> a, of |-> c, line |-> l, after |-> last[l]]}
  /\ UNCHANGED <<closed, last>>

\* Nothing has been added to the line since the draft, nor the close itself.
Add(d) ==
  /\ d.after = last[d.line] /\ d.of \notin closed
  /\ closed' = closed \cup {d.of}
  /\ last' = [last EXCEPT ![d.line] = d.of]
  /\ drafts' = drafts \ {d}

\* Refused, failed, released, or lost with the process that held them.
Drop(D) == drafts' = drafts \ D /\ UNCHANGED <<closed, last>>

LineNext ==
  \/ \E a \in Authors, c \in Closes, l \in Lines : Draft(a, c, l)
  \/ \E d \in drafts : Add(d)
  \/ \E D \in SUBSET drafts : Drop(D)

LineSpec == LineInit /\ [][LineNext]_line

\* Every line ends in a close there is, and every draft follows one.
LineTyped ==
  /\ Nothing \notin Closes /\ closed \subseteq Closes
  /\ last \in [Lines -> closed \cup {Nothing}]
  /\ \A d \in drafts : d.of \in Closes /\ d.line \in Lines /\ d.after \in closed \cup {Nothing}

\* Whoever has been overtaken stays so: a line never comes back to a close it
\* has left, so of two drafts after one close at most one is ever added.
OvertakenStay ==
  [][\A d \in drafts \cap drafts' :
       d.after # last[d.line] => d.after # last'[d.line]]_line

\* What was added stays.
NothingLost == [][closed \subseteq closed']_line
=============================================================================
