---------------------------- MODULE MCAdmission ----------------------------
(***************************************************************************)
(* Admission to an agent, and the processes around it.  Two connections,   *)
(* each with two authorization streams and a service stream, of which a    *)
(* behaviour uses the ones of its workload: "timed" one stream, clocks and *)
(* policies; "streams" two streams and a service of one connection;        *)
(* "slots" two connections that compete for one grant.  The grant lasts a  *)
(* second, its renewal two; two ticks are a second.  "rights": what two    *)
(* grants of three scopes allow.  "agentd", "serverd" and "admin": the     *)
(* lives of the agent, of the server and of an administration listener.    *)
(***************************************************************************)
EXTENDS ConnAuthz, Grants

CONSTANTS c1, c2, t1, t2, s1

VARIABLES
    workload, chosen, at, next, held, live, issuing, done, handlers, signalled,
    verdict, status, setup, step, durable, up, over, early, asked, kept,
    signal, unexpected, exit, enabled, runner, stop, ended, ask,
    adminActive, owner, adminTask, outcome, answer

MCGrants ==
    {[id |-> 1, revision |-> 1, not_before |-> 0, expires |-> 1],
     [id |-> 1, revision |-> 2, not_before |-> 0, expires |-> 2]}
MCConns == {c1, c2}
MCTasks == {t1, t2}
MCServices == {s1}
MCTenant == <<>>
MCScopes ==
    {[services |-> {"Tcp"}, ports |-> <<>>, tenant |-> <<>>],
     [services |-> {"Tcp"}, ports |-> <<{1}>>, tenant |-> <<"t">>],
     [services |-> {"DesktopControl", "SyncRead"}, ports |-> <<>>, tenant |-> <<>>]}

Exercised ==
    [timed |-> [tasks |-> {<<c1, t1>>}, services |-> {}, revisions |-> {1, 2},
                ttls |-> {2, 4}, time |-> 4, updates |-> 1],
     streams |-> [tasks |-> {<<c1, t1>>, <<c1, t2>>}, services |-> {<<c1, s1>>},
                  revisions |-> {1, 2}, ttls |-> {4}, time |-> 0, updates |-> 0],
     slots |-> [tasks |-> {<<c1, t1>>, <<c2, t1>>}, services |-> {},
                revisions |-> {2}, ttls |-> {4}, time |-> 0, updates |-> 1]]

\* Only the streams, grants and policies of the workload, within its bounds.
Within(w) ==
    /\ continuous <= w.time
    /\ updates <= w.updates
    /\ policy.lease # None => \E ttl \in w.ttls : policy.lease - continuous <= ttl
    /\ \A t \in DOMAIN task :
          /\ task[t].at # "idle" => t \in w.tasks
          /\ task[t].grant # None => task[t].grant.revision \in w.revisions
    /\ \A s \in DOMAIN service : service[s].at # "idle" => s \in w.services
    /\ \A c \in Conns : closed[c] => \E t \in w.tasks : t[1] = c

Daemons ==
    INSTANCE Daemons WITH
        Options <- {"admin", "control", "issuer", "announce", "portal"},
        Asks <- {1, 2, 3}, MaxConnections <- 2, active <- adminActive,
        task <- adminTask

agentdVars ==
    <<chosen, at, next, held, live, issuing, done, handlers, signalled, verdict, status>>
serverdVars ==
    <<setup, step, durable, up, over, early, asked, kept, signal, unexpected,
      exit>>
adminVars ==
    <<enabled, runner, stop, ended, ask, adminActive, owner, adminTask,
      outcome, answer>>

MCInit ==
    /\ workload \in {"timed", "streams", "slots", "rights", "agentd", "serverd", "admin"}
    /\ GrantInit
    /\ Daemons!AgentInit
    /\ workload # "agentd" => chosen = {}
    /\ Daemons!ServerInit
    /\ workload # "serverd" => setup = [backend |-> "noq", policy |-> FALSE, admin |-> FALSE]
    /\ Daemons!AdminInit
    /\ workload # "admin" => ~enabled
    /\ Init
    /\ workload \notin {"timed", "streams", "slots"} => policy.lease = None
    /\ workload \in DOMAIN Exercised => policy.lease \in Exercised[workload].ttls \cup {None}

MCNext ==
    /\ UNCHANGED workload
    /\ \/ workload \in {"timed", "streams", "slots"} /\ Next
           /\ policy'.lease \in {policy.lease, None}
                                \cup {continuous + ttl : ttl \in Exercised[workload].ttls}
           /\ Within(Exercised[workload])'
           /\ UNCHANGED <<grantVars, agentdVars, serverdVars, adminVars>>
       \/ workload = "rights" /\ GrantNext
           /\ UNCHANGED <<vars, agentdVars, serverdVars, adminVars>>
       \/ workload = "agentd" /\ Daemons!AgentNext
           /\ UNCHANGED <<vars, grantVars, serverdVars, adminVars>>
       \/ workload = "serverd" /\ Daemons!ServerNext
           /\ UNCHANGED <<vars, grantVars, agentdVars, adminVars>>
       \/ workload = "admin" /\ Daemons!AdminNext
           /\ UNCHANGED <<vars, grantVars, agentdVars, serverdVars>>

MCSpec ==
    /\ MCInit
    /\ [][MCNext]_<<workload, vars, grantVars, agentdVars, serverdVars, adminVars>>

\* A grant that is sound for this agent is taken whenever both clocks are
\* within the allowed skew, and it opens a service's stream exactly when it
\* allows some operation on it (verify, permits_service).
GrantsAreUsable == workload = "rights" => WorthyIsTaken /\ AdmissionAgrees

\* The server process ends successfully only when it was asked to and none of its
\* services failed; the agent process never when its metrics or session server
\* failed, and without a signal only when its connection loop or announcer ended
\* well; a closed administration listener reports how its runner ended and leaves
\* no request behind (run of rds-server and rds-agent, admin Server::close).  And
\* nothing acts without its owner: the agent's key is held as long as its
\* endpoint, services and announcer exist, the server process leaves no service
\* running, and the gauge of the administration listener counts the requests
\* being served.
EndsAreTold ==
    /\ workload = "serverd" => Daemons!FailureIsTold
    /\ workload = "agentd" => Daemons!ServerFailureIsTold
    /\ workload = "admin" => Daemons!CloseTellsAll
    /\ workload = "agentd" => Daemons!KeyOutlastsUse
    /\ workload = "serverd" => Daemons!NothingLeftRunning
    /\ workload = "admin" => Daemons!ActiveExact
=============================================================================
