----------------------------- MODULE PatchAgent -----------------------------
(***************************************************************************)
(* propose_plan(), agents/patch/patch_agent.py, and the model server it    *)
(* asks.  The server answers one request at a time; a caller that goes     *)
(* away does not stop the generation it asked for, which then holds the    *)
(* server's only slot for as long as it likes, for ever if it hangs.  A    *)
(* run's plan is the valid answer it may get.                              *)
(***************************************************************************)
EXTENDS Executor

CONSTANTS
  MaxSchemaRetries, \* settings.llm.max_schema_retries
  Free,             \* the slot is free
  Orphan            \* ... or held by a generation nobody waits for

ASSUME RetriesAssumption == MaxSchemaRetries \in Nat
ASSUME SlotAssumption == Free # Orphan /\ {Free, Orphan} \cap Runs = {}

VARIABLES
  call,    \* the call of propose_plan() of each run
  attempt, \* the loop's attempt: invalid answers so far
  slot     \* whom the server is generating an answer for

agent == <<call, attempt, slot>>

CallStates == {"ready", "waiting", "planned", "escalated", "raised"}

\* An earlier run may have left its generation behind.
AInit ==
  /\ call = [r \in Runs |-> "ready"]
  /\ attempt = [r \in Runs |-> 0]
  /\ slot \in {Free, Orphan}

Becomes(r, state) == call' = [call EXCEPT ![r] = state]

\* The slot when run r goes away, and when the server drops it.
LeftBy(r) == IF slot = r THEN Orphan ELSE slot

DroppedFor(r) == IF slot = r THEN Free ELSE slot

Ask(r) ==
  /\ call[r] = "ready"
  /\ Becomes(r, "waiting")
  /\ UNCHANGED <<attempt, slot>>

Serve(r) ==
  /\ call[r] = "waiting"
  /\ slot = Free
  /\ slot' = r
  /\ UNCHANGED <<call, attempt>>

\* The answer parses, satisfies the schema and names a registered procedure.
Accept(r) ==
  /\ slot = r
  /\ Known(plan[r])
  /\ Becomes(r, "planned")
  /\ slot' = Free
  /\ UNCHANGED attempt

\* JSONDecodeError, ValidationError or KeyError: ask again, or give up.
Invalid(r) ==
  /\ slot = r
  /\ Becomes(r, IF attempt[r] < MaxSchemaRetries THEN "ready" ELSE "escalated")
  /\ attempt' = [attempt EXCEPT ![r] = @ + 1]
  /\ slot' = Free

\* message.content is None: json.loads() raises a TypeError, which is not caught.
Contentless(r) ==
  /\ slot = r
  /\ Becomes(r, "raised")
  /\ slot' = Free
  /\ UNCHANGED attempt

\* Bug: the call has no timeout.
TimesOutNever(r) ==
  /\ FALSE
  /\ UNCHANGED agent

\* APITimeoutError: the server is not told.
TimesOut(r) ==
  /\ call[r] = "waiting"
  /\ Becomes(r, "escalated")
  /\ slot' = LeftBy(r)
  /\ UNCHANGED attempt

\* APIConnectionError: the server does not run, or is restarted.
Unreachable(r) ==
  /\ call[r] = "waiting"
  /\ Becomes(r, "escalated")
  /\ slot' = DroppedFor(r)
  /\ UNCHANGED attempt

\* APIStatusError is neither of the two exceptions that are caught.
ErrorStatus(r) ==
  /\ call[r] = "waiting"
  /\ Becomes(r, "raised")
  /\ slot' = DroppedFor(r)
  /\ UNCHANGED attempt

OrphanEnds ==
  /\ slot = Orphan
  /\ slot' = Free
  /\ UNCHANGED <<call, attempt>>

\* The caller is gone.
Abandon(r) ==
  /\ slot' = LeftBy(r)
  /\ UNCHANGED <<call, attempt>>

\* What the caller does by itself.
ProposePlan(r) == Ask(r) \/ TimesOut(r)

\* What the server does, or what becomes of it.
Answers(r) ==
  \/ Serve(r)
  \/ Accept(r) \/ Invalid(r) \/ Contentless(r)
  \/ Unreachable(r) \/ ErrorStatus(r)

-----------------------------------------------------------------------------
AgentTypeOK ==
  /\ call \in [Runs -> CallStates]
  /\ attempt \in [Runs -> 0 .. MaxSchemaRetries + 1]
  /\ slot \in Runs \cup {Free, Orphan}

=============================================================================
