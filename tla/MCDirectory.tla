---------------------------- MODULE MCDirectory ----------------------------
(***************************************************************************)
(* The directory.  "lease": one lease at two ticks per second, with        *)
(* intervals of one, two and three seconds.  "store": the in-memory store  *)
(* with three ordered keys for two slots and a record that a delete        *)
(* replaces.  "budget": two publishers at a window of three ticks.  "api": *)
(* two concurrent requests of which one may lapse.  "service": one accept  *)
(* loop, its connections, maintenance and two closers.                     *)
(***************************************************************************)
EXTENDS LeaseClock, AdmissionBudget, MemoryStore

VARIABLES
    workload, exercise, call, held, spent, stored, trust, trustLock, apiAcked,
    named, asked, lapsed, conn, job, maint, sealed, stop, due, runner,
    closer, holder, handle, outcome

MCIntervals == {<<0, 1>>, <<1, 3>>, <<0, 3>>}
MCEntries ==
    {[kind |-> "record", revision |-> 1, issued |-> 0, expires |-> 1],
     [kind |-> "delete", revision |-> 2, issued |-> 0, expires |-> 2]}

\* Requests of the API: the life of a record, and two registries.
Write(s, r, form) == [op |-> "write", stream |-> s, rev |-> r, form |-> form]
Read(s) == [op |-> "read", stream |-> s, rev |-> 0, form |-> "none"]
Asks ==
    {Write("record", 1, "live"), Write("record", 2, "deleted"), Read("record"),
     Write("registry", 1, "live"), Write("registry", 2, "live"), Read("registry")}

\* Policy documents and publishers share no window: a behaviour has the ones or
\* the others.
Apart == (DOMAIN writers = {}) \/ (registry = Fresh(0) /\ revocations = Fresh(0))

\* The requests of a behaviour concern one stream: streams share the workers only.
Concerns(stream) ==
    \A slot \in DOMAIN call : call[slot].at # "idle" => call[slot].req.stream = stream

Service ==
    INSTANCE DirectoryService WITH
        ApiSlots <- {1, 2}, Requests <- Asks, ApiMaxWorkers <- 2,
        MaxCalls <- 4, MaxLapses <- 1, acked <- apiAcked,
        MaxConns <- 1, MaxWorkers <- 1, Closers <- {1, 2},
        MaxPanics <- 1

apiVars ==
    <<call, held, spent, stored, trust, trustLock, apiAcked, named, asked,
      lapsed>>
serviceVars ==
    <<conn, job, maint, sealed, stop, due, runner, closer, holder, handle,
      outcome>>

MCInit ==
    /\ workload \in {"lease", "budget", "store", "api", "service"}
    /\ exercise \in IF workload = "api" THEN {"record", "registry"} ELSE {"all"}
    /\ BudgetInit
    /\ StoreInit
    /\ Service!ApiInit
    /\ Service!DirInit
    /\ Init
    /\ workload # "lease" => wall = 0

MCNext ==
    /\ UNCHANGED <<workload, exercise>>
    /\ \/ workload = "lease" /\ Next
           /\ UNCHANGED <<budgetVars, storeVars, apiVars, serviceVars>>
       \/ workload = "budget" /\ BudgetNext /\ Apart'
           /\ UNCHANGED <<vars, storeVars, apiVars, serviceVars>>
       \/ workload = "store" /\ StoreNext
           /\ UNCHANGED <<vars, budgetVars, apiVars, serviceVars>>
       \/ workload = "api" /\ Service!ApiNext /\ Concerns(exercise)'
           /\ UNCHANGED <<vars, budgetVars, storeVars, serviceVars>>
       \/ workload = "service" /\ Service!DirNext
           /\ UNCHANGED <<vars, budgetVars, storeVars, apiVars>>

MCSpec ==
    /\ MCInit
    /\ [][MCNext]_<<workload, exercise, vars, budgetVars, storeVars, apiVars, serviceVars>>

\* What the directory answers agrees with what it did: the incrementally
\* maintained count of the in-memory store is the number of its live records, a
\* repeated request is charged nothing, a read that begins after an
\* acknowledgement sees that content or newer, and a lookup that goes to the trust
\* store after another returned a newer registry's binding does not return an
\* older one (access_admitted, admit, put_record, get_record, NameTrust::accept).
AnswersAgree ==
    /\ workload = "store" => LiveCountExact
    /\ workload = "api" =>
        Service!RetryIsFree /\ Service!ReadsFollowAcks /\ Service!NamesForward

\* Once close() returned nothing of the service still runs, also when its runner
\* failed or an earlier close was canceled, and every caller of close learns the
\* runner's real outcome (Directory::close, Runner::wait, TaskGroup::drain).
NothingAfterClose ==
  workload = "service" =>
    /\ Service!NothingAfterClose
    /\ Service!OutcomeKept
=============================================================================
