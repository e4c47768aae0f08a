------------------------------ MODULE Subprocesses ------------------------------
(***************************************************************************)
(* The handlers that run a program to answer a request, and process.Output  *)
(* under them: metadata requests, which compete for InfoSlots, and health   *)
(* reports, which a mutex serializes and a cache answers for ten seconds.   *)
(*                                                                         *)
(* A program is a process group: its leader, and descendants that may       *)
(* outlive the leader and hold its pipes.                                  *)
(***************************************************************************)
EXTENDS Naturals, FiniteSets

CONSTANTS
  Infos,     \* the metadata requests
  Checks,    \* the health requests
  MaxInfo,   \* capacity of InfoSlots
  Probes     \* the programs that a health report runs, one after the other

Handlers == Infos \cup Checks

VARIABLES
  at,        \* where a handler stands
  program,   \* the process group it runs: "orphaned" once its leader has exited and
             \* descendants have not, "returned" once process.Output has
  ctxDone,   \* the handlers whose context has expired or whose client has left
  cut,       \* those whose call of Output has been cancelled besides: by too much
             \* output, or by the three seconds of a probe
  slots,     \* tokens in InfoSlots
  healthMu,  \* the handler that holds it, or Nobody
  cached,    \* healthData is there and less than ten seconds old
  left       \* probes the report under way has still to make

vars == <<at, program, ctxDone, cut, slots, healthMu, cached, left>>

--------------------------------------------------------------------------------
Nobody == "nobody"

Live == {"running", "orphaned"}

(* The stages at which a handler is in process.Output. *)
InOutput == {"querying", "probing"}

TypeOK ==
  /\ at \in [Handlers -> {"none", "validating", "waiting", "leaving", "answered"} \cup InOutput]
  /\ program \in [Handlers -> {"none", "dead", "returned"} \cup Live]
  /\ ctxDone \subseteq Handlers /\ cut \subseteq Handlers
  /\ slots \in 0 .. MaxInfo
  /\ healthMu \in Checks \cup {Nobody}
  /\ cached \in BOOLEAN
  /\ left \in 0 .. Probes

Init ==
  /\ at = [h \in Handlers |-> "none"]
  /\ program = [h \in Handlers |-> "none"]
  /\ ctxDone = {} /\ cut = {}
  /\ slots = 0
  /\ healthMu = Nobody
  /\ cached = FALSE
  /\ left = 0

Goto(h, stage) == at' = [at EXCEPT ![h] = stage]
Becomes(h, p) == program' = [program EXCEPT ![h] = p]

others == <<slots, healthMu, cached, left>>

--------------------------------------------------------------------------------
(* process.Output *)

Calling(h) == at[h] \in InOutput /\ program[h] # "returned"

(* A context that is done or a program that is not there: nothing is started. *)
Start(h) ==
  /\ Calling(h) /\ program[h] = "none"
  /\ \/ h \notin ctxDone \cup cut /\ Becomes(h, "running")
     \/ Becomes(h, "returned")
  /\ UNCHANGED <<at, ctxDone, cut, others>>

Exit(h) ==
  /\ program[h] = "running"
  /\ \E rest \in {"orphaned", "dead"} : Becomes(h, rest)
  /\ UNCHANGED <<at, ctxDone, cut, others>>

(* The group writes more than the limit: limitedOutput cancels the call. *)
Overflow(h) ==
  /\ program[h] \in Live
  /\ cut' = cut \cup {h}
  /\ UNCHANGED <<at, program, ctxDone, others>>

(* cmd.Cancel kills the whole group. *)
Kill(h) ==
  /\ program[h] \in Live /\ h \in ctxDone \cup cut
  /\ Becomes(h, "dead")
  /\ UNCHANGED <<at, ctxDone, cut, others>>

(* Wait returns when the leader has exited and the pipes are closed, or a second
   after if descendants hold them; cleanup kills those that are left. *)
Return(h) ==
  /\ program[h] \in {"orphaned", "dead"}
  /\ Becomes(h, "returned")
  /\ UNCHANGED <<at, ctxDone, cut, others>>

Output(h) == Start(h) \/ Exit(h) \/ Overflow(h) \/ Kill(h) \/ Return(h)

--------------------------------------------------------------------------------
(* HandleInfo *)

(* A slot at once, or the answer that the service is busy. *)
Admit(h) ==
  /\ at[h] = "none"
  /\ IF slots < MaxInfo THEN slots' = slots + 1 /\ Goto(h, "validating")
     ELSE Goto(h, "answered") /\ UNCHANGED slots
  /\ UNCHANGED <<program, ctxDone, cut, healthMu, cached, left>>

(* The address, whose host may have to be resolved, and the options. *)
Validate(h) ==
  /\ at[h] = "validating"
  /\ \E stage \in {"querying", "leaving"} : Goto(h, stage)
  /\ UNCHANGED <<program, ctxDone, cut, others>>

AnswerAtExit(h) ==
  /\ at[h] = "querying" /\ program[h] \in {"orphaned", "dead", "returned"}
  /\ Goto(h, "leaving")
  /\ UNCHANGED <<program, ctxDone, cut, others>>

AnswerInfo(h) ==
  /\ at[h] = "querying" /\ program[h] = "returned"
  /\ Goto(h, "leaving")
  /\ UNCHANGED <<program, ctxDone, cut, others>>

(* Deferred, whichever return it was. *)
ReleaseSlot(h) ==
  /\ at[h] = "leaving"
  /\ slots' = slots - 1
  /\ Goto(h, "answered")
  /\ UNCHANGED <<program, ctxDone, cut, healthMu, cached, left>>

Advance(h) == Validate(h) \/ AnswerInfo(h) \/ ReleaseSlot(h)

--------------------------------------------------------------------------------
(* HandleHealth *)

AskHealth(h) ==
  /\ at[h] = "none"
  /\ Goto(h, "waiting")
  /\ UNCHANGED <<program, ctxDone, cut, others>>

(* Under the mutex: answer from the cache, or begin to probe. *)
Lock(h) ==
  /\ at[h] = "waiting" /\ healthMu = Nobody
  /\ IF cached THEN Goto(h, "answered") /\ UNCHANGED <<healthMu, left>>
     ELSE /\ Goto(h, "probing")
          /\ healthMu' = h
          /\ left' = Probes
  /\ UNCHANGED <<program, ctxDone, cut, slots, cached>>

(* A probe has returned; the next one has a call and a deadline of its own. *)
NextProbe(h) ==
  /\ at[h] = "probing" /\ program[h] = "returned" /\ left > 1
  /\ left' = left - 1
  /\ Becomes(h, "none")
  /\ cut' = cut \ {h}
  /\ UNCHANGED <<at, ctxDone, slots, healthMu, cached>>

ReportLocked(h) ==
  /\ at[h] = "probing" /\ program[h] = "returned" /\ left = 1
  /\ left' = 0
  /\ cached' = TRUE
  /\ Goto(h, "answered")
  /\ UNCHANGED <<program, ctxDone, cut, slots, healthMu>>

(* After the last one: store the report, whatever it says, answer and unlock. *)
Report(h) ==
  /\ at[h] = "probing" /\ program[h] = "returned" /\ left = 1
  /\ left' = 0
  /\ cached' = TRUE
  /\ healthMu' = Nobody
  /\ Goto(h, "answered")
  /\ UNCHANGED <<program, ctxDone, cut, slots>>

--------------------------------------------------------------------------------
(* Time, and clients that leave *)

(* The deadline of a metadata request (InfoTimeoutMs) or of a report (10 s), which
   run from admission and from the lock on. *)
Expire(h) ==
  /\ at[h] \in {"validating"} \cup InOutput /\ h \notin ctxDone
  /\ ctxDone' = ctxDone \cup {h}
  /\ UNCHANGED <<at, program, cut, others>>

LeaveEarly(h) ==
  /\ at[h] = "waiting" /\ h \notin ctxDone
  /\ ctxDone' = ctxDone \cup {h}
  /\ UNCHANGED <<at, program, cut, others>>

ExpireProbe(h) ==
  /\ at[h] = "probing" /\ Calling(h) /\ h \notin cut
  /\ cut' = cut \cup {h}
  /\ UNCHANGED <<at, program, ctxDone, others>>

ExpireCache ==
  /\ cached
  /\ cached' = FALSE
  /\ UNCHANGED <<at, program, ctxDone, cut, slots, healthMu, left>>

--------------------------------------------------------------------------------
Next ==
  \/ \E h \in Infos : Admit(h) \/ Advance(h)
  \/ \E h \in Checks :
       AskHealth(h) \/ Lock(h) \/ NextProbe(h) \/ Report(h) \/ LeaveEarly(h) \/ ExpireProbe(h)
  \/ \E h \in Handlers : Output(h) \/ Expire(h)
  \/ ExpireCache

(* Handlers go on, time passes, and a mutex is handed to every waiter in turn;
   nothing makes a program exit or a client leave. *)
Fairness ==
  /\ \A h \in Infos : WF_vars(Advance(h))
  /\ \A h \in Checks : SF_vars(Lock(h)) /\ WF_vars(NextProbe(h) \/ Report(h))
  /\ \A h \in Handlers :
       WF_vars(Start(h)) /\ WF_vars(Kill(h)) /\ WF_vars(Return(h)) /\ WF_vars(Expire(h))

Spec == Init /\ [][Next]_vars /\ Fairness

--------------------------------------------------------------------------------
(* Properties *)

(* process.go "owns their entire process tree": nothing of a group is alive after the
   call of Output that started it (process.go:46, proc_unix.go:16-25); and at most
   MaxInfo programs run for metadata and one for health at any moment, as "health
   probes are cached and serialized to bound dependency subprocesses". *)
Alive == {h \in Handlers : program[h] \in Live}

TreesAreBounded ==
  /\ \A h \in Alive : Calling(h)
  /\ Cardinality(Alive \cap Infos) <= MaxInfo
  /\ Cardinality(Alive \cap Checks) <= 1

(* Every request gets its answer, although a program may never exit and its
   descendants may never close its pipes. *)
RequestsAnswered == \A h \in Handlers : at[h] # "none" ~> at[h] = "answered"
================================================================================
