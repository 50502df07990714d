-------------------------- MODULE ProcessDirectory --------------------------
(***************************************************************************)
(* What the entity registry promises its users (registry/entity_registry.h,*)
(* the notes on the class): a directory that names every process with an   *)
(* id and answers every event with the id of its process.                  *)
(*                                                                         *)
(* An id is issued once.  A key, the tgid, goes from no id to a fresh id,  *)
(* from an id to none when its process has ended or was forgotten, and     *)
(* from an id to a fresh id when the tgid has a new owner; it never goes   *)
(* back to an id it had before.  How the directory finds out, what it      *)
(* remembers of each process and when it forgets is left open.             *)
(***************************************************************************)
EXTENDS Integers

CONSTANT Keys      \* tgids; 0 is not one of them

VARIABLES
  current,         \* key -> the id of its process, 0 when it has none
  issued,          \* ids issued so far: 1 .. issued
  answer           \* the last event's key and the id it was given

dirVars == <<current, issued, answer>>

Init ==
  /\ current = [k \in Keys |-> 0]
  /\ issued = 0
  /\ answer = [key |-> 0, id |-> 0]

Fresh == (issued + 1) .. issued'

\* What an event may do to the directory as a whole.  It concerns at most two
\* processes, an actor and the child it has started, but may make the directory
\* forget others.
Step ==
  /\ issued' \in issued .. (issued + 2)
  /\ \A k \in Keys : current'[k] \in {0, current[k]} \cup Fresh
  /\ \A j, k \in Keys : j # k /\ current'[j] # 0 => current'[j] # current'[k]

\* An event of process k: it is given the id the process has, or a fresh one,
\* and afterwards the process has that id or has ended.
Attribute(k) ==
  /\ Step
  /\ \E id \in ({current[k]} \cup Fresh) \ {0} :
       /\ answer' = [key |-> k, id |-> id]
       /\ current'[k] \in {0, id}

\* An event of no process (the idle task) has no id.
Anonymous ==
  /\ Step
  /\ answer' = [key |-> 0, id |-> 0]

Next == (\E k \in Keys : Attribute(k)) \/ Anonymous

Spec == Init /\ [][Next]_dirVars
=============================================================================
