-------------------------- MODULE MCEntityRegistry --------------------------
(* EntityRegistry on two tgids, with at most two retained entities.        *)
EXTENDS EntityRegistry

\* A leader, a second thread of the same process, another process, and the
\* idle task, whose pid and tgid are both 0.
MCActors == {[pid |-> 1, tgid |-> 1], [pid |-> 2, tgid |-> 1],
             [pid |-> 2, tgid |-> 2], [pid |-> 0, tgid |-> 0]}

\* No such process, or the first or the second owner of the pid.
MCSnapshots == [check : {0}, start : {0}, exe : {NoExe}]
                 \cup {[check |-> n, start |-> n, exe |-> "sh"] : n \in Ticks}

\* /proc answers for nothing: all processes are gone when the event arrives.
MCGone == {[check |-> 0, start |-> 0, exe |-> NoExe]}
=============================================================================
