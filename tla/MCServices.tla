------------------------------- MODULE MCServices -------------------------------
(***************************************************************************)
(* Services that every job or request goes through and that must not hang:  *)
(* the job queue (JobQueue), the network guard (Guard), the programs run    *)
(* for an answer (Subprocesses), metadata and health apart, and persistLoop *)
(* (History).  They share no state, so a run picks one of them in its       *)
(* initial state, and the others rest.                                     *)
(***************************************************************************)
EXTENDS JobQueue, Guard

CONSTANTS
  Infos, Checks, MaxInfo, Probes   \* of Subprocesses

(* A handler answers one kind of request; the mutex may be nobody's. *)
ASSUME HandlersAssumption ==
  /\ Infos \cap Checks = {}
  /\ "nobody" \notin Checks
  /\ {MaxInfo, Probes} \subseteq Nat

VARIABLES
  part,   \* the one explored
  at, program, ctxDone, cut, slots, healthMu, cached, left,
  mem, used, admissions, admitting, keyOf, owed, token, dirty, loop, last, trimming, toRead,
  saved, disk, failing, server, restarts

processVars == <<at, program, ctxDone, cut, slots, healthMu, cached, left>>
historyVars == <<mem, used, admissions, admitting, keyOf, owed, token, dirty, loop, last, trimming,
                 toRead, saved, disk, failing, server, restarts>>

servicesVars == <<part, vars, guardVars, processVars, historyVars>>

Processes == INSTANCE Subprocesses

(* One client that gives no keys and admits two jobs. *)
Records == INSTANCE History WITH
  Jobs <- {1}, Kids <- [j \in {1} |-> {}], Keys <- {}, Payloads <- {"p"},
  RecordLimit <- 2, KeyLimit <- 2, HistoryLimit <- 1, MaxVersion <- 2, MaxRestarts <- 1

(* Guard and handlers rest in their initial states, where none of their fair steps
   is enabled; the queue rests once its reader has stopped. *)
QueueRests ==
  /\ items = << >> /\ wake = FALSE /\ stale = {} /\ call = [c \in Callers |-> "idle"]
  /\ cancelled = {} /\ reader = "stopped" /\ stop = FALSE /\ taken = {}

ServicesInit ==
  /\ part \in {"queue", "guard", "metadata", "health", "history"}
  /\ IF part = "queue" THEN Init ELSE QueueRests
  /\ GuardInit
  /\ Processes!Init
  /\ Records!InitAt(IF part = "history" THEN "serving" ELSE "exited", {})

None(handlers) == \A h \in handlers : at'[h] = "none"

ServicesNext ==
  \/ part = "queue" /\ Next /\ UNCHANGED <<part, guardVars, processVars, historyVars>>
  \/ part = "guard" /\ GuardNext /\ UNCHANGED <<part, vars, processVars, historyVars>>
  \/ part = "metadata" /\ Processes!Next /\ None(Checks) /\ UNCHANGED <<part, vars, guardVars, historyVars>>
  \/ part = "health" /\ Processes!Next /\ None(Infos) /\ UNCHANGED <<part, vars, guardVars, historyVars>>
  \/ part = "history" /\ Records!Next /\ UNCHANGED <<part, vars, guardVars, processVars>>

ServicesSpec ==
  /\ ServicesInit /\ [][ServicesNext]_servicesVars
  /\ Fairness /\ GuardFairness /\ Processes!Fairness /\ Records!Fairness

(* The properties of Subprocesses and History; those of JobQueue and Guard keep
   their names. *)
TreesAreBounded == Processes!TreesAreBounded
EndSaved == Records!EndSaved
RequestsAnswered == Processes!RequestsAnswered
================================================================================
