------------------------------- MODULE MCService -------------------------------
(***************************************************************************)
(* The parts of the service that do not read blocks, for TLC.  They share  *)
(* no state; one of them runs in a behaviour, chosen at its start.         *)
(***************************************************************************)
EXTENDS Admission, ClueDirectory, TipFacts, RangeClient, Connections

CONSTANTS
    Parts,     \* the parts of this instance
    PoolTicks  \* bound on the clock beside the pool

VARIABLE part

serviceVars == <<limiterVars, admissionVars, directoryVars, factVars, rangeVars,
                 connectionVars, part>>

\* Address p2 is behind the proxy p1 and sends a hop of its own choice before.
MCOrigins == {<<"p1", <<>>>>, <<"p1", <<"p3", "p2", "p1">>>>}
MCPeers   == {"p1", "p2"}
MCProxies == {"p1"}

\* Three views of the handlers: uploads beside each other, FetchPirBatch calls
\* beside each other, and one call after another on the pool while the clock
\* runs.
KindsOf == [uploads |-> {"digest"}, pir |-> {"pir"}, pool |-> {"register", "pool"}]
TicksOf == [uploads |-> 0, pir |-> 1, pool |-> PoolTicks]

AdmissionStep ==
    /\ AdmissionNext
    /\ \A c \in Calls : calls'[c].kind \in KindsOf[part] \cup {None}
    /\ part = "pool" =>
          /\ \A c \in Calls : calls'[c].cur = 0
          /\ \A w \in 1 .. FheWorkers : workers'[w] # None => workers'[w].call # None
          /\ \A c \in Calls : calls'[c] # NoCall => c = (CHOOSE d \in Calls : TRUE)

ClockStep == Tick /\ now < TicksOf[part] /\ UNCHANGED admissionVars

MCInit ==
    /\ LimiterInit /\ AdmissionInit /\ DirectoryInit /\ FactsInit /\ RangeInit /\ ConnectionsInit
    /\ part \in Parts

MCNext ==
    /\ UNCHANGED part
    /\ \/ part = "limiter" /\ LimiterNext
          /\ UNCHANGED <<admissionVars, directoryVars, factVars, rangeVars, connectionVars>>
       \/ part \in DOMAIN KindsOf /\ (AdmissionStep \/ ClockStep)
          /\ UNCHANGED <<directoryVars, factVars, rangeVars, connectionVars>>
       \/ part = "directory" /\ DirectoryNext
          /\ UNCHANGED <<limiterVars, admissionVars, factVars, rangeVars, connectionVars>>
       \/ part = "facts" /\ FactsNext
          /\ UNCHANGED <<limiterVars, admissionVars, directoryVars, rangeVars, connectionVars>>
       \/ part = "ranges" /\ RangeNext
          /\ UNCHANGED <<limiterVars, admissionVars, directoryVars, factVars, connectionVars>>
       \/ part = "connections" /\ ConnectionsNext
          /\ UNCHANGED <<limiterVars, admissionVars, directoryVars, factVars, rangeVars>>

handlerVars == <<limiterVars, admissionVars>>

\* The timers fire, the runtime resumes a handler whose worker is done, the
\* semaphore serves its queue, a computation ends, and, in the part with
\* connections, the server polls for them.
Fairness ==
    /\ WF_handlerVars(Take)
    /\ \A c \in Calls : WF_handlerVars(TimesOut(c)) /\ WF_handlerVars(Respond(c))
    /\ \A w \in 1 .. FheWorkers : WF_handlerVars(WorkerEnds(w))
    /\ WF_connectionVars(part = "connections" /\ TakePermit)
    /\ WF_connectionVars(part = "connections" /\ Accept)

MCSpec == MCInit /\ [][MCNext]_serviceVars /\ Fairness
=============================================================================
