----------------------------- MODULE EventDelivery -----------------------------
(***************************************************************************)
(* Events of the platform: the webhook handler that answers at once and    *)
(* starts a goroutine for each event it has not seen (webhook/dispatch.go),*)
(* the goroutine with its answer to an interaction, its command and the    *)
(* replies with their fallbacks (bot/handler.go, bot/env.go), and the one  *)
(* record of the handling that is kept (bot/replier.go).  The platform may *)
(* deliver an event again at any time; the table of events seen is memory  *)
(* and is lost with the process.  What a command does to schedules is in   *)
(* ScheduleStore and GlobalSchedules.                                      *)
(***************************************************************************)
EXTENDS Naturals, FiniteSets, Sequences

CONSTANTS
  Events,        \* the ids of the events the platform delivers
  Interactions,  \* those of them that are button presses
  NoId,          \* the id of an event that has none
  Plans,         \* how the commands may answer
  DedupTtl,      \* dedupTTL, in ticks of the clock
  DedupMax,      \* dedupMaxEntries
  MaxAttempts,   \* how often the client sends one request
  MaxRuns,       \* bound: goroutines ever started
  MaxTime,       \* bound: ticks of the clock
  MaxLives       \* bound: starts of the process

AllPlans == {"nothing", "error", "reply", "markdown", "image", "keyboard", "plain"}

ASSUME EventsAssumption ==
  Interactions \subseteq Events /\ NoId \notin Events /\ IsFiniteSet(Events) /\ Plans \subseteq AllPlans
ASSUME LimitsAssumption ==
  /\ DedupTtl \in Nat /\ DedupMax \in Nat \ {0} /\ MaxAttempts \in Nat \ {0}
  /\ MaxRuns \in Nat /\ MaxTime \in Nat \ {0} /\ MaxLives \in Nat

VARIABLES
  now,      \* the clock
  life,     \* how often the process has been started
  phase,    \* "up", "draining" (no requests any more) or "closed" (no database)
  seen,     \* seen[e]: when e was accepted; Unseen: it is not in the table
  started,  \* how many goroutines have been started
  runs,     \* runs[g]: the goroutine g and what came of it
  acks      \* acks[e]: the PUTs the platform has got for the interaction e

vars == <<now, life, phase, seen, started, runs, acks>>

Slots == 1..MaxRuns
Unseen == 0
Table == {e \in Events : seen[e] # Unseen}

Stages == {"handler", "reply", "card"}
Rank == [none |-> 0, handler |-> 1, reply |-> 2, card |-> 3]

(* A goroutine as process finds it; late: its context has ended; mute:     *)
(* its statements fail; failed: dispatchErr; got: messages the user has    *)
(* received from it; lost: an answer of the platform did not come.         *)
Run(e, pc, at, born) ==
  [event |-> e, at |-> at, life |-> born, pc |-> pc, tries |-> 1, late |-> FALSE, mute |-> FALSE,
   claimed |-> "none", failed |-> FALSE, got |-> 0, lost |-> FALSE, rows |-> <<>>]
NoRun == Run(NoId, "idle", 0, 0)

Sends == {"reply", "markdown", "image", "keyboard", "plain"}
Running(g) == runs[g].pc \in {"ack", "dispatch", "record"} \cup Sends

Init ==
  /\ now = 1 /\ life = 1 /\ phase = "up"
  /\ seen = [e \in Events |-> Unseen]
  /\ started = 0
  /\ runs = [g \in Slots |-> NoRun]
  /\ acks = [e \in Events |-> 0]

--------------------------------------------------------------------------------
\* Mutants: the table is emptied when full; it is never swept.
StaleAll(e) == seen[e] # Unseen
StaleNever(e) == FALSE

(* markSeen: a full table first loses what is older than dedupTTL.         *)
Stale(e) == seen[e] # Unseen /\ now - seen[e] > DedupTtl

Swept ==
  IF Cardinality(Table) >= DedupMax
  THEN [e \in Events |-> IF Stale(e) THEN Unseen ELSE seen[e]]
  ELSE seen

Marked(e) == IF e = NoId THEN seen ELSE [Swept EXCEPT ![e] = now]

(* The handler has answered 200; an event it knows is dropped.             *)
Handle(e) ==
  /\ phase = "up"
  /\ e \notin Table
  /\ started < MaxRuns
  /\ seen' = Marked(e)
  /\ started' = started + 1
  /\ runs' = [runs EXCEPT ![started + 1] =
                Run(e, IF e \in Interactions THEN "ack" ELSE "dispatch", now, life)]
  /\ UNCHANGED <<now, life, phase, acks>>

--------------------------------------------------------------------------------
(* The goroutine's private state.                                          *)
Becomes(g, run) ==
  /\ runs' = [runs EXCEPT ![g] = run]
  /\ UNCHANGED <<now, life, phase, seen, started>>

(* The last step of a message is the deferred record of Dispatch, the      *)
(* callback of an interaction has none.                                    *)
Final(run) == IF run.event \in Interactions THEN "over" ELSE "record"

\* A mutant: any stage but the one recorded last is recorded.
ClaimsOther(run, stage) == stage # run.claimed

(* recordStats: a stage replaces only what ranks below it, and is claimed  *)
(* even if its row cannot be written.                                      *)
Claims(run, stage) == Rank[stage] > Rank[run.claimed]

Recorded(run, stage, ok) ==
  IF ~Claims(run, stage) THEN run
  ELSE [run EXCEPT !.claimed = stage,
                   !.rows = IF run.mute THEN @ ELSE Append(@, [stage |-> stage, ok |-> ok])]

\* Mutants: the callback runs although the interaction was not answered; one
\* attempt too many.
AckFailedGoesOn(run) == {[run EXCEPT !.pc = "dispatch"]}
AckFailedOnceMore(run) ==
  {[run EXCEPT !.pc = "over"]} \cup
  (IF run.tries <= MaxAttempts THEN {[run EXCEPT !.tries = @ + 1]} ELSE {})

(* PUT /interactions/{id}, with a context of its own.  A refusal ends it,  *)
(* no answer or a server error repeats it, and without an answer of the    *)
(* platform the interaction is dropped.                                    *)
AckFailed(run) ==
  {[run EXCEPT !.pc = "over"]} \cup
  (IF run.tries < MaxAttempts THEN {[run EXCEPT !.tries = @ + 1]} ELSE {})

Ack(g) ==
  /\ runs[g].pc = "ack"
  /\ LET e == runs[g].event
     IN \/ /\ acks' = [acks EXCEPT ![e] = @ + 1]
           /\ \E run \in {[runs[g] EXCEPT !.pc = "dispatch"]} \cup AckFailed(runs[g]) :
                Becomes(g, run)
        \/ \E run \in AckFailed(runs[g]) : Becomes(g, run) /\ UNCHANGED acks

(* Dispatch or HandleCallback up to its first reply.  Nothing is sent for  *)
(* an unknown command, a bot that is off, a policy that forbids it or a    *)
(* panic; messages of bots and unreadable ones do not get this far.        *)
Dispatch(g) ==
  /\ runs[g].pc = "dispatch"
  /\ \/ \E plan \in Plans :
          Becomes(g, [runs[g] EXCEPT !.pc = IF plan \in Sends THEN plan ELSE Final(runs[g]),
                                     !.failed = plan = "error"])
     \/ Becomes(g, [runs[g] EXCEPT !.pc = "dropped"])
  /\ UNCHANGED acks

\* A mutant: the record of a card says that it was sent in any case.
SentAlways(run, stage, ok) ==
  [Recorded(run, stage, TRUE) EXCEPT !.pc = Final(run), !.failed = ~ok]

(* After the last send of a command.                                       *)
Sent(run, stage, ok) ==
  [Recorded(run, stage, ok) EXCEPT !.pc = Final(run), !.failed = ~ok]

(* SendCardWithText and SendDayMarkdownWithKeyboard: what is tried when a  *)
(* message could not be sent, and the stage it counts as when it could.    *)
Fallback == [markdown |-> "image", keyboard |-> "plain", plain |-> "reply"]
StageOf(send) == IF send \in {"markdown", "image"} THEN "card" ELSE "reply"

\* A mutant: a send is recorded, failed or not, before its fallback.
AfterRecorded(run, ok) ==
  IF ok \/ run.pc \notin DOMAIN Fallback THEN Sent(run, StageOf(run.pc), ok)
  ELSE [Recorded(run, StageOf(run.pc), ok) EXCEPT !.pc = Fallback[run.pc]]

After(run, ok) ==
  IF ok \/ run.pc \notin DOMAIN Fallback THEN Sent(run, StageOf(run.pc), ok)
  ELSE [run EXCEPT !.pc = Fallback[run.pc]]

(* One message to the platform: confirmed, refused or not sent at all, or  *)
(* delivered without an answer.                                            *)
Send(g) ==
  /\ runs[g].pc \in Sends
  /\ \/ ~runs[g].late /\ Becomes(g, After([runs[g] EXCEPT !.got = @ + 1], TRUE))
     \/ Becomes(g, After(runs[g], FALSE))
     \/ Becomes(g, After([runs[g] EXCEPT !.got = @ + 1, !.lost = TRUE], FALSE))
  /\ UNCHANGED acks

Record(g) ==
  /\ runs[g].pc = "record"
  /\ Becomes(g, [Recorded(runs[g], "handler", ~runs[g].failed) EXCEPT !.pc = "over"])
  /\ UNCHANGED acks

Step(g) == Ack(g) \/ Dispatch(g) \/ Send(g) \/ Record(g)

--------------------------------------------------------------------------------
(* handlerTimeout: requests and statements of g fail from now on.          *)
Late(g) ==
  /\ Running(g) /\ ~runs[g].late
  /\ Becomes(g, [runs[g] EXCEPT !.late = TRUE, !.mute = TRUE])
  /\ UNCHANGED acks

Tick ==
  /\ now < MaxTime
  /\ now' = now + 1
  /\ UNCHANGED <<life, phase, seen, started, runs, acks>>

(* Run stops the HTTP server, waits for its workers and closes the         *)
(* database; it does not wait for the goroutines of events.                *)
Shutdown ==
  /\ phase = "up" /\ phase' = "draining"
  /\ UNCHANGED <<now, life, seen, started, runs, acks>>

Close ==
  /\ phase = "draining" /\ phase' = "closed"
  /\ runs' = [g \in Slots |-> [runs[g] EXCEPT !.mute = @ \/ Running(g)]]
  /\ UNCHANGED <<now, life, seen, started, acks>>

(* The process ends, in order or not, and is started again.                *)
Restart ==
  /\ life < MaxLives
  /\ life' = life + 1
  /\ phase' = "up"
  /\ seen' = [e \in Events |-> Unseen]
  /\ runs' = [g \in Slots |-> [runs[g] EXCEPT !.pc = IF Running(g) THEN "killed" ELSE @]]
  /\ UNCHANGED <<now, started, acks>>

Next ==
  \/ \E e \in Events \cup {NoId} : Handle(e)
  \/ \E g \in Slots : Step(g) \/ Late(g)
  \/ Tick \/ Shutdown \/ Close \/ Restart

Spec == Init /\ [][Next]_vars

--------------------------------------------------------------------------------
RunType ==
  [event : Events \cup {NoId}, at : 0..MaxTime, life : Nat,
   pc : {"idle", "ack", "dispatch", "record", "over", "dropped", "killed"} \cup Sends,
   tries : 1..MaxAttempts, late : BOOLEAN, mute : BOOLEAN, claimed : Stages \cup {"none"},
   failed : BOOLEAN, got : Nat, lost : BOOLEAN, rows : Seq([stage : Stages, ok : BOOLEAN])]

(* Every variable holds a value of its kind.                               *)
TypeOK ==
  /\ now \in 0..MaxTime /\ life \in Nat /\ phase \in {"up", "draining", "closed"}
  /\ seen \in [Events -> 0..MaxTime]
  /\ started \in 0..MaxRuns
  /\ runs \in [Slots -> RunType]
  /\ acks \in [Events -> Nat]

(* INVARIANT.  The platform repeats events and waits for no answer, yet in *)
(* one life of the process an event is handled a second time only when     *)
(* more than dedupTTL has passed, however full the table is.               *)
ProcessedOnce ==
  \A g, h \in 1..started :
    /\ g < h /\ runs[g].event = runs[h].event /\ runs[g].event # NoId
    /\ runs[g].life = runs[h].life
    => runs[h].at - runs[g].at > DedupTtl

(* INVARIANT.  The table holds more than dedupMaxEntries only while so     *)
(* many events have come within dedupTTL of each other.                    *)
OnlyFreshAboveLimit ==
  Cardinality(Table) > DedupMax => \A d, e \in Table : seen[d] - seen[e] <= DedupTtl

(* INVARIANT.  A message that has been dispatched leaves exactly one       *)
(* record, through every chain of fallbacks, unless its context or the     *)
(* database was gone; an interaction leaves one at most.                   *)
OneRecord ==
  \A g \in Slots :
    /\ Len(runs[g].rows) <= 1
    /\ runs[g].pc = "over" /\ runs[g].event \notin Interactions /\ ~runs[g].mute
         => Len(runs[g].rows) = 1

(* INVARIANT.  The record of a sending stage says what became of the       *)
(* answer: it is ok exactly when the user has got one, unless the platform *)
(* has delivered a message without confirming it.                          *)
RecordTellsOutcome ==
  \A g \in Slots : \A i \in 1..Len(runs[g].rows) :
    LET row == runs[g].rows[i]
    IN ~runs[g].lost => (row.ok /\ row.stage # "handler" <=> runs[g].got = 1)

(* INVARIANT.  A button press is answered with a card only after the       *)
(* platform has got the acknowledgement (PLAN.md 226: acknowledge first).  *)
AckBeforeAnswer ==
  \A g \in Slots :
    runs[g].event \in Interactions /\ runs[g].got > 0 => acks[runs[g].event] > 0
===============================================================================
