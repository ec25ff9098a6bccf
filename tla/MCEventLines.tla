----------------------------- MODULE MCEventLines -----------------------------
(* Names of up to three words that look like fields, in all styles.           *)
EXTENDS EventLines, TLC

Words == {<<"a">>, <<"7">>, <<"b", ":", "0">>, <<"c", "-", "7">>, <<"[", "7", "]">>, <<"==>">>, <<"pid", "=", "7">>,
          <<"12", ".", "7", ":">>}
Plain == <<<<"a">>>>
Short == {<<w>> : w \in Words \cup {<<>>}}
Names == Short \cup {<<v, w>> : v \in Words \cup {<<>>}, w \in Words \cup {<<>>}}
Long  == Names \cup {<<u, v, w>> : u \in Words \cup {<<>>}, v \in Words, w \in Words}
Pairs == (Names \X {Plain}) \cup ({Plain} \X Names) \cup (Short \X Short)

(* Names that hold the arrow where the one of the event could be.             *)
Around == {<<"a">>, <<"[", "7", "]">>, <<"==>">>, <<"prev_pid", "=", "0">>, <<>>}
Arrows == {<<t, u, v, <<"==>">>, w>> : t \in Around, u \in Around, v \in Around, w \in Around}

(* Names that hold all that comes before an event, or almost.                 *)
Headers ==
  {<<s, t, u>> \o v :
     s \in {<<"a">>, <<"7">>, <<>>}, t \in {<<"a">>, <<"7">>, <<"c", "-", "7">>, <<"-">>, <<"migration-cpu">>},
     u \in {<<"a">>, <<"[", "7", "]">>},
     v \in {<<<<"12", ".", "7", ":">>>>, <<<<"12", ".", "7", ":">>, <<"b", ":">>>>,
           <<<<"d..1.">>, <<"12", ".", "7", ":">>, <<"b", ":">>>>}}

By(task, flags, e) == [task |-> task, taskpid |-> <<"12">>, flags |-> flags] @@ e

Switches ==
  {[type |-> "sched_switch", style |-> s, oldname |-> p[1], oldpid |-> <<"-", "1">>, state |-> {"D", "K"},
    newname |-> p[2], newpid |-> <<"8">>] : s \in {"new", "old"}, p \in Pairs \cup (Arrows \X {Plain})}
  \cup {[type |-> "sched_switch", style |-> s, oldname |-> Plain, oldpid |-> <<"7">>, state |-> f,
         newname |-> Plain, newpid |-> <<"0">>] : s \in {"new", "old"}, f \in {{}, {"+"}, {"S"}}}
Wakeups ==
  {[type |-> "sched_wakeup", style |-> s, name |-> n, pid |-> <<"7">>, success |-> TRUE] :
     s \in {"new", "success", "old", "old_success", "old_cant"}, n \in Names}
Forks ==
  {[type |-> "sched_process_fork", style |-> "new", name |-> p[1], pid |-> <<"7">>,
    childname |-> p[2], childpid |-> <<"8">>] : p \in Pairs}
Others ==
  {[type |-> t, style |-> "new", name |-> n, pid |-> <<"7">>, origCPU |-> <<"0">>, destCPU |-> <<"1">>] :
     n \in Names, t \in {"sched_waking", "sched_process_exit", "sched_migrate_task"}}
Exit      == [type |-> "sched_process_exit", style |-> "new", name |-> Plain, pid |-> <<"7">>]
Frequency == [type |-> "cpu_frequency", style |-> "new", cpu |-> <<"1">>, freq |-> <<"12">>]

MCPrinted ==
  {By(Plain, TRUE, e) : e \in Switches \cup Wakeups \cup Forks \cup Others \cup {Frequency}}
    \cup {By(n, f, Exit) : n \in Long \cup Headers, f \in BOOLEAN}
=============================================================================
