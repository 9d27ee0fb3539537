-------------------------- MODULE EventDeliveryProofs --------------------------
(***************************************************************************)
(* Theorems of EventDelivery for any events, table sizes, times to live    *)
(* and numbers of attempts, goroutines, ticks and lives: an event is       *)
(* handled once and acknowledged first, its one record is true, and the    *)
(* table of events passes its limit with fresh ones only.                  *)
(***************************************************************************)
EXTENDS EventDelivery, FiniteSetTheorems, TLAPS

Early == {"idle", "ack", "dispatch"} \cup Sends

(* What holds of a goroutine by itself: it has claimed a stage exactly     *)
(* when it is past its sends, and its one row tells what the user has got. *)
RunInv(run) ==
  /\ run.pc = "ack" => run.event \in Interactions
  /\ run.pc \in Early => run.claimed = "none"
  /\ run.claimed = "none" => run.rows = <<>> /\ (~run.lost => run.got = 0)
  /\ Len(run.rows) <= 1
  /\ run.claimed # "none" /\ ~run.mute => Len(run.rows) = 1
  /\ run.pc = "over" /\ run.event \notin Interactions => run.claimed # "none"
  /\ Len(run.rows) = 1 /\ ~run.lost =>
       (run.rows[1].ok /\ run.rows[1].stage # "handler" <=> run.got = 1)

(* A goroutine of this life has its event in the table, no older than      *)
(* itself, or has been started longer ago than dedupTTL.                   *)
Remembered(run) ==
  run.life = life /\ run.event # NoId =>
    seen[run.event] >= run.at \/ now - run.at > DedupTtl

TimeInv ==
  \A g \in 1..started :
    /\ runs[g].at \in 1..now /\ runs[g].life <= life
    /\ Remembered(runs[g])
AckInv ==
  \A g \in Slots :
    runs[g].event \in Interactions /\ (runs[g].pc \in Sends \cup {"dispatch"} \/ runs[g].got > 0)
      => acks[runs[g].event] > 0
LocalInv == \A g \in Slots : RunInv(runs[g])
SeenInv == \A e \in Events : seen[e] <= now

IInv == TypeOK /\ now >= 1 /\ SeenInv /\ TimeInv /\ ProcessedOnce /\ AckInv /\ LocalInv

--------------------------------------------------------------------------------
(* The operators on one goroutine keep its type and its identity.          *)
Same(run, next) ==
  next.event = run.event /\ next.at = run.at /\ next.life = run.life

LEMMA RecordedType ==
  ASSUME NEW run \in RunType, NEW stage \in Stages, NEW ok \in BOOLEAN
  PROVE  /\ Recorded(run, stage, ok) \in RunType
         /\ Same(run, Recorded(run, stage, ok))
         /\ Recorded(run, stage, ok).got = run.got
         /\ Recorded(run, stage, ok).pc = run.pc
<1> DEFINE row == [stage |-> stage, ok |-> ok]
<1>1. Append(run.rows, row) \in Seq([stage : Stages, ok : BOOLEAN])
  BY DEF RunType
<1>2. CASE Claims(run, stage)
  BY <1>1, <1>2 DEF Recorded, RunType, Same
<1>3. CASE ~Claims(run, stage)
  BY <1>3 DEF Recorded, Same
<1> QED BY <1>2, <1>3

LEMMA SentType ==
  ASSUME NEW run \in RunType, NEW stage \in Stages, NEW ok \in BOOLEAN
  PROVE  /\ Sent(run, stage, ok) \in RunType
         /\ Same(run, Sent(run, stage, ok))
         /\ Sent(run, stage, ok).got = run.got
         /\ Sent(run, stage, ok).pc \in {"over", "record"}
<1> DEFINE rec == Recorded(run, stage, ok)
<1>1. rec \in RunType /\ Same(run, rec) /\ rec.got = run.got
  BY RecordedType
<1>2. Final(run) \in {"over", "record"}
  BY DEF Final
<1> HIDE DEF rec
<1>3. [rec EXCEPT !.pc = Final(run), !.failed = ~ok] \in RunType
  BY <1>1, <1>2, ZenonT(40) DEF RunType
<1> QED BY <1>1, <1>2, <1>3 DEF Sent, Same, rec, RunType

LEMMA AfterType ==
  ASSUME NEW run \in RunType, run.pc \in Sends, NEW ok \in BOOLEAN
  PROVE  /\ After(run, ok) \in RunType
         /\ Same(run, After(run, ok))
         /\ After(run, ok).got = run.got
<1>1. StageOf(run.pc) \in Stages
  BY DEF StageOf, Stages
<1>2. CASE ok \/ run.pc \notin DOMAIN Fallback
  BY <1>1, <1>2, SentType DEF After
<1>3. CASE ~(ok \/ run.pc \notin DOMAIN Fallback)
  BY <1>3 DEF After, Fallback, RunType, Same, Sends
<1> QED BY <1>2, <1>3

--------------------------------------------------------------------------------
(* What a goroutine has done by itself keeps RunInv.                       *)
Open(run) == run.claimed = "none" /\ run.rows = <<>>

LEMMA RecordedOpen ==
  ASSUME NEW run \in RunType, Open(run), NEW stage \in Stages, NEW ok \in BOOLEAN
  PROVE  /\ Recorded(run, stage, ok).claimed = stage
         /\ Recorded(run, stage, ok).mute = run.mute
         /\ Recorded(run, stage, ok).lost = run.lost
         /\ Recorded(run, stage, ok).rows =
              IF run.mute THEN <<>> ELSE <<[stage |-> stage, ok |-> ok]>>
<1>1. Claims(run, stage)
  BY DEF Claims, Open, Rank, Stages
<1>2. Append(<<>>, [stage |-> stage, ok |-> ok]) = <<[stage |-> stage, ok |-> ok]>>
  OBVIOUS
<1> QED BY <1>1, <1>2 DEF Recorded, RunType, Open

LEMMA SentInv ==
  ASSUME NEW run \in RunType, Open(run), NEW stage \in {"reply", "card"}, NEW ok \in BOOLEAN,
         ~run.lost => (run.got = 1 <=> ok)
  PROVE  RunInv(Sent(run, stage, ok))
<1> DEFINE rec == Recorded(run, stage, ok)
           new == Sent(run, stage, ok)
           row == [stage |-> stage, ok |-> ok]
<1>1. stage \in Stages /\ stage # "none"
  BY DEF Stages
<1>2. rec \in RunType /\ Same(run, rec) /\ rec.got = run.got
  BY <1>1, RecordedType
<1>3. /\ rec.claimed = stage /\ rec.mute = run.mute /\ rec.lost = run.lost
      /\ rec.rows = IF run.mute THEN <<>> ELSE <<row>>
  BY <1>1, RecordedOpen
<1>4. new.pc \in {"over", "record"}
  BY <1>1, SentType
<1>5. /\ new.claimed = rec.claimed /\ new.mute = rec.mute /\ new.lost = rec.lost
      /\ new.rows = rec.rows /\ new.got = rec.got
  <2> HIDE DEF rec
  <2> QED BY <1>2 DEF Sent, RunType, rec
<1> HIDE DEF rec, new
<1>6. row.ok = ok /\ row.stage = stage
  OBVIOUS
<1>7. RunInv(new)
  <2>1. CASE run.mute
    <3>1. new.rows = <<>> /\ Len(new.rows) = 0
      BY <1>3, <1>5, <2>1
    <3>2. new.mute /\ new.claimed = stage
      BY <1>3, <1>5, <2>1
    <3> QED BY <1>1, <1>4, <3>1, <3>2 DEF RunInv, Early, Sends
  <2>2. CASE ~run.mute
    <3> HIDE DEF row
    <3>1. new.rows = <<row>> /\ Len(new.rows) = 1 /\ new.rows[1] = row
      BY <1>3, <1>5, <2>2
    <3>2. new.got = run.got /\ new.lost = run.lost /\ new.claimed = stage
      BY <1>2, <1>3, <1>5
    <3>3. ~new.lost => (new.rows[1].ok /\ new.rows[1].stage # "handler" <=> new.got = 1)
      BY <1>6, <3>1, <3>2
    <3> QED BY <1>1, <1>4, <3>1, <3>2, <3>3 DEF RunInv, Early, Sends
  <2> QED BY <2>1, <2>2
<1> QED BY <1>7 DEF new

LEMMA AfterInv ==
  ASSUME NEW run \in RunType, run.pc \in Sends, Open(run), NEW ok \in BOOLEAN,
         ~run.lost => run.got = (IF ok THEN 1 ELSE 0)
  PROVE  RunInv(After(run, ok))
<1>1. CASE ok \/ run.pc \notin DOMAIN Fallback
  <2>1. StageOf(run.pc) \in {"reply", "card"}
    BY DEF StageOf
  <2> QED BY <1>1, <2>1, SentInv DEF After
<1>2. CASE ~(ok \/ run.pc \notin DOMAIN Fallback)
  <2>1. After(run, ok) = [run EXCEPT !.pc = Fallback[run.pc]] /\ Fallback[run.pc] \in Sends
    BY <1>2 DEF After, Fallback, Sends
  <2> QED BY <1>2, <2>1 DEF RunInv, Open, RunType, Sends, Early
<1> QED BY <1>1, <1>2

--------------------------------------------------------------------------------
(* A step of one goroutine, which changes neither its event nor its start. *)
LEMMA BecomesKeeps ==
  ASSUME IInv, NEW g \in Slots, NEW run \in RunType, Becomes(g, run), Same(runs[g], run),
         acks' \in [Events -> Nat], \A e \in Events : acks'[e] >= acks[e],
         RunInv(run), UNCHANGED phase,
         run.event \in Interactions /\ (run.pc \in Sends \cup {"dispatch"} \/ run.got > 0)
           => acks'[run.event] > 0
  PROVE  IInv'
<1>1. runs' = [runs EXCEPT ![g] = run] /\ UNCHANGED <<now, life, phase, seen, started>>
  BY DEF Becomes
<1>2. runs' \in [Slots -> RunType] /\ runs'[g] = run
      /\ \A h \in Slots \ {g} : runs'[h] = runs[h]
  BY <1>1 DEF IInv, TypeOK
<1>3. \A h \in Slots : Same(runs[h], runs'[h])
  BY <1>2 DEF Same
<1>4. TypeOK' /\ (now >= 1)' /\ SeenInv'
  BY <1>1, <1>2 DEF IInv, TypeOK, SeenInv
<1>5. 1..started \subseteq Slots
  BY LimitsAssumption DEF IInv, TypeOK, Slots
<1>6. TimeInv'
  BY <1>1, <1>3, <1>5 DEF IInv, TimeInv, Remembered, Same
<1>7. ProcessedOnce'
  BY <1>1, <1>3, <1>5 DEF IInv, ProcessedOnce, Same
<1>8. AckInv'
  <2> SUFFICES ASSUME NEW h \in Slots, (runs[h].event \in Interactions)',
                      (runs[h].pc \in Sends \cup {"dispatch"} \/ runs[h].got > 0)'
               PROVE  (acks[runs[h].event] > 0)'
    BY DEF AckInv
  <2>1. CASE h = g
    BY <1>2, <2>1
  <2>2. CASE h # g
    <3>1. acks[runs[h].event] > 0 /\ runs[h].event \in Events
      BY <1>2, <2>2, EventsAssumption DEF IInv, AckInv
    <3> QED BY <1>2, <2>2, <3>1 DEF IInv, TypeOK
  <2> QED BY <2>1, <2>2
<1>9. LocalInv'
  BY <1>2 DEF IInv, LocalInv
<1> QED BY <1>4, <1>6, <1>7, <1>8, <1>9 DEF IInv

--------------------------------------------------------------------------------
(* The steps of a goroutine.                                               *)
LEMMA AckKeeps ==
  ASSUME IInv, NEW g \in Slots, Ack(g)
  PROVE  IInv'
<1> DEFINE run == runs[g]
           e == runs[g].event
<1>1. run \in RunType /\ run.pc = "ack" /\ RunInv(run)
  BY DEF IInv, TypeOK, LocalInv, Ack
<1>2. e \in Interactions /\ e \in Events
  BY <1>1, EventsAssumption DEF RunInv
<1>3. Open(run)
  BY <1>1 DEF RunInv, Early, Open
<1>4. UNCHANGED phase
  BY DEF Ack, Becomes
<1>5. acks \in [Events -> Nat]
  BY DEF IInv, TypeOK
<1>6. ASSUME NEW next \in AckFailed(run)
      PROVE  /\ next \in RunType /\ Same(run, next) /\ RunInv(next)
             /\ next.pc \notin Sends \cup {"dispatch"} /\ next.got = run.got
  <2>1. CASE next = [run EXCEPT !.pc = "over"]
    <3> HIDE DEF run, e
    <3>1. next \in RunType /\ Same(run, next) /\ next.got = run.got /\ next.pc = "over"
      BY <1>1, <2>1 DEF RunType, Same
    <3>2. /\ next.claimed = run.claimed /\ next.rows = run.rows
          /\ next.event = run.event /\ next.lost = run.lost /\ next.mute = run.mute
      BY <1>1, <2>1 DEF RunType
    <3>3. RunInv(next)
      BY <1>1, <1>2, <1>3, <3>1, <3>2 DEF RunInv, Early, Sends, Open, e, run
    <3> QED BY <3>1, <3>3 DEF Sends
  <2>2. CASE run.tries < MaxAttempts /\ next = [run EXCEPT !.tries = @ + 1]
    <3> HIDE DEF run, e
    <3> DEFINE tries == run.tries + 1
    <3>4. tries \in 1..MaxAttempts
      BY <1>1, <2>2, LimitsAssumption DEF RunType
    <3>5. next = [run EXCEPT !.tries = tries]
      BY <1>1, <2>2 DEF RunType
    <3> HIDE DEF tries
    <3>1. next \in RunType /\ Same(run, next) /\ next.got = run.got /\ next.pc = "ack"
      BY <1>1, <3>4, <3>5 DEF RunType, Same
    <3>2. /\ next.claimed = run.claimed /\ next.rows = run.rows
          /\ next.event = run.event /\ next.lost = run.lost /\ next.mute = run.mute
      BY <1>1, <2>2 DEF RunType
    <3>3. RunInv(next)
      BY <1>1, <1>2, <1>3, <3>1, <3>2 DEF RunInv, Early, Sends, Open, e, run
    <3> QED BY <3>1, <3>3 DEF Sends
  <2> QED BY <1>6, <2>1, <2>2 DEF AckFailed
<1>7. CASE /\ acks' = [acks EXCEPT ![e] = @ + 1]
           /\ Becomes(g, [run EXCEPT !.pc = "dispatch"])
  <2> DEFINE next == [run EXCEPT !.pc = "dispatch"]
  <2>1. next \in RunType /\ Same(run, next) /\ RunInv(next)
    BY <1>1, <1>3 DEF RunType, Same, RunInv, Early, Open
  <2>2. acks' \in [Events -> Nat] /\ \A d \in Events : acks'[d] >= acks[d]
    BY <1>2, <1>5, <1>7
  <2>3. acks'[e] > 0 /\ next.event = e
    BY <1>1, <1>2, <1>5, <1>7 DEF RunType
  <2> HIDE DEF next
  <2> QED BY <1>4, <1>7, <2>1, <2>2, <2>3, BecomesKeeps DEF next
<1>8. CASE /\ acks' = [acks EXCEPT ![e] = @ + 1] \/ UNCHANGED acks
           /\ \E next \in AckFailed(run) : Becomes(g, next)
  <2>1. acks' \in [Events -> Nat] /\ \A d \in Events : acks'[d] >= acks[d]
    <3>1. CASE acks' = [acks EXCEPT ![e] = @ + 1]
      BY <1>2, <1>5, <3>1
    <3>2. CASE UNCHANGED acks
      BY <1>5, <3>2
    <3> QED BY <1>8, <3>1, <3>2
  <2>2. PICK next \in AckFailed(run) : Becomes(g, next)
    BY <1>8
  <2>3. /\ next \in RunType /\ Same(run, next) /\ RunInv(next)
        /\ next.pc \notin Sends \cup {"dispatch"} /\ next.got = run.got
    BY <1>6
  <2>4. run.got = 0 \/ acks[e] > 0
    BY <1>1, <1>2 DEF IInv, AckInv, RunType
  <2>5. next.got > 0 => acks'[next.event] > 0
    BY <1>1, <1>2, <1>5, <2>1, <2>3, <2>4 DEF Same, RunType
  <2> QED BY <1>4, <2>1, <2>2, <2>3, <2>5, BecomesKeeps
<1> QED BY <1>7, <1>8 DEF Ack

LEMMA QuietKeeps ==
  ASSUME IInv, NEW g \in Slots, NEW run \in RunType, Becomes(g, run), Same(runs[g], run),
         UNCHANGED acks, RunInv(run),
         run.pc \in Sends \cup {"dispatch"} => runs[g].pc \in Sends \cup {"dispatch"},
         run.got > 0 => runs[g].got > 0 \/ runs[g].pc \in Sends \cup {"dispatch"}
  PROVE  IInv'
<1>1. acks' \in [Events -> Nat] /\ \A e \in Events : acks'[e] >= acks[e]
  BY DEF IInv, TypeOK
<1>2. run.event \in Interactions /\ (run.pc \in Sends \cup {"dispatch"} \/ run.got > 0)
        => acks'[run.event] > 0
  BY DEF IInv, AckInv, Same
<1>3. UNCHANGED phase
  BY DEF Becomes
<1> QED BY <1>1, <1>2, <1>3, BecomesKeeps

LEMMA DispatchKeeps ==
  ASSUME IInv, NEW g \in Slots, Dispatch(g)
  PROVE  IInv'
<1> DEFINE run == runs[g]
<1>1. run \in RunType /\ run.pc = "dispatch" /\ RunInv(run)
  BY DEF IInv, TypeOK, LocalInv, Dispatch
<1>2. Open(run) /\ (~run.lost => run.got = 0)
  BY <1>1 DEF RunInv, Early, Open
<1>3. CASE Becomes(g, [run EXCEPT !.pc = "dropped"])
  <2> DEFINE next == [run EXCEPT !.pc = "dropped"]
  <2>1. next \in RunType /\ Same(run, next) /\ RunInv(next) /\ next.got = run.got /\ next.pc = "dropped"
    BY <1>1, <1>2 DEF RunType, Same, RunInv, Early, Open, Sends
  <2>2. Becomes(g, next) /\ UNCHANGED acks
    BY <1>3 DEF Dispatch
  <2> HIDE DEF next
  <2> QED BY <2>1, <2>2, QuietKeeps DEF Sends
<1>4. ASSUME NEW plan \in Plans,
             Becomes(g, [run EXCEPT !.pc = IF plan \in Sends THEN plan ELSE Final(run),
                                    !.failed = plan = "error"])
      PROVE  IInv'
  <2> DEFINE pc == IF plan \in Sends THEN plan ELSE Final(run)
             bad == plan = "error"
             next == [run EXCEPT !.pc = pc, !.failed = bad]
  <2>1. pc \in Sends \/ pc = Final(run)
    OBVIOUS
  <2>2. Final(run) \in {"over", "record"} /\ (Final(run) = "over" => run.event \in Interactions)
    BY DEF Final
  <2>3. bad \in BOOLEAN
    OBVIOUS
  <2> HIDE DEF pc, bad
  <2>4. next \in RunType /\ Same(run, next) /\ next.got = run.got /\ next.pc = pc
    BY <1>1, <2>1, <2>2, <2>3 DEF RunType, Same, Sends
  <2>5. /\ next.claimed = run.claimed /\ next.rows = run.rows
        /\ next.event = run.event /\ next.lost = run.lost /\ next.mute = run.mute
    BY <1>1, <2>4 DEF RunType
  <2>6. Becomes(g, next) /\ UNCHANGED acks
    BY <1>4 DEF Dispatch, pc, bad
  <2> HIDE DEF next
  <2>7. pc # "ack"
    BY <2>1, <2>2 DEF Sends
  <2>8. RunInv(next)
  <3>1. next.rows = <<>> /\ Len(next.rows) = 0 /\ next.claimed = "none"
    BY <1>2, <2>5 DEF Open
  <3>2. next.pc = "over" => next.event \in Interactions
    BY <2>1, <2>2, <2>4, <2>5 DEF Sends
  <3>3. ~next.lost => next.got = 0
    BY <1>2, <2>4, <2>5
  <3> QED BY <2>4, <2>7, <3>1, <3>2, <3>3 DEF RunInv
  <2> QED BY <1>1, <2>4, <2>6, <2>8, QuietKeeps
<1> QED BY <1>3, <1>4 DEF Dispatch

LEMMA SendKeeps ==
  ASSUME IInv, NEW g \in Slots, Send(g)
  PROVE  IInv'
<1> DEFINE run == runs[g]
<1>1. run \in RunType /\ run.pc \in Sends /\ RunInv(run) /\ UNCHANGED acks
  BY DEF IInv, TypeOK, LocalInv, Send
<1>2. Open(run) /\ (~run.lost => run.got = 0)
  BY <1>1 DEF RunInv, Early, Open
<1>3. ASSUME NEW next \in RunType, NEW ok \in BOOLEAN, Same(run, next), next.pc = run.pc,
             Open(next), ~next.lost => next.got = (IF ok THEN 1 ELSE 0),
             Becomes(g, After(next, ok))
      PROVE  IInv'
  <2> DEFINE new == After(next, ok)
  <2>1. new \in RunType /\ Same(next, new) /\ RunInv(new)
    BY <1>1, <1>3, AfterType, AfterInv
  <2>2. Same(run, new) /\ Becomes(g, new)
    BY <1>3, <2>1 DEF Same
  <2> HIDE DEF new
  <2> QED BY <1>1, <2>1, <2>2, QuietKeeps
<1>4. CASE ~run.late /\ Becomes(g, After([run EXCEPT !.got = @ + 1], TRUE))
  <2> DEFINE next == [run EXCEPT !.got = @ + 1]
  <2>1. /\ next \in RunType /\ Same(run, next) /\ next.pc = run.pc /\ Open(next)
        /\ next.lost = run.lost /\ next.got = run.got + 1
    BY <1>1, <1>2 DEF RunType, Same, Open
  <2>2. Becomes(g, After(next, TRUE))
    BY <1>4
  <2> HIDE DEF next
  <2>3. ~next.lost => next.got = 1
    BY <1>2, <2>1
  <2> QED BY <1>3, <2>1, <2>2, <2>3
<1>5. CASE Becomes(g, After(run, FALSE))
  <2>1. Same(run, run)
    BY DEF Same
  <2> QED BY <1>1, <1>2, <1>3, <1>5, <2>1
<1>6. CASE Becomes(g, After([run EXCEPT !.got = @ + 1, !.lost = TRUE], FALSE))
  <2> DEFINE next == [run EXCEPT !.got = @ + 1, !.lost = TRUE]
  <2> DEFINE got == run.got + 1
  <2>3. got \in Nat
    BY <1>1 DEF RunType
  <2>4. next = [run EXCEPT !.got = got, !.lost = TRUE]
    BY <1>1 DEF RunType
  <2>1. /\ next \in RunType /\ Same(run, next) /\ next.pc = run.pc /\ Open(next) /\ next.lost
    <3> HIDE DEF run, got, next
    <3> QED BY <1>1, <1>2, <2>3, <2>4 DEF RunType, Same, Open
  <2>2. Becomes(g, After(next, FALSE))
    BY <1>6
  <2> HIDE DEF next
  <2> QED BY <1>3, <2>1, <2>2
<1> QED BY <1>4, <1>5, <1>6 DEF Send

LEMMA RecordKeeps ==
  ASSUME IInv, NEW g \in Slots, Record(g)
  PROVE  IInv'
<1> DEFINE run == runs[g]
           ok  == ~run.failed
           rec == Recorded(run, "handler", ok)
           new == [rec EXCEPT !.pc = "over"]
<1>1. run \in RunType /\ run.pc = "record" /\ RunInv(run) /\ UNCHANGED acks /\ ok \in BOOLEAN
  BY DEF IInv, TypeOK, LocalInv, Record, RunType
<1>2. Becomes(g, new)
  BY DEF Record
<1>3. "handler" \in Stages /\ "handler" # "none"
  BY DEF Stages
<1> HIDE DEF ok
<1>4. rec \in RunType /\ Same(run, rec) /\ rec.got = run.got
  BY <1>1, <1>3, RecordedType
<1>5. RunInv([rec EXCEPT !.pc = "over"])
  <2>1. CASE run.claimed = "none"
    <3> DEFINE row == [stage |-> "handler", ok |-> ok]
    <3>1. Open(run)
      BY <1>1, <2>1 DEF RunInv, Open
    <3>2. /\ rec.claimed = "handler" /\ rec.mute = run.mute /\ rec.lost = run.lost
          /\ rec.rows = IF run.mute THEN <<>> ELSE <<row>>
      BY <1>1, <1>3, <3>1, RecordedOpen
    <3> HIDE DEF rec
    <3>3. /\ new.pc = "over" /\ new.claimed = "handler" /\ new.mute = run.mute
          /\ new.lost = run.lost /\ new.rows = rec.rows /\ new.got = run.got
      BY <1>4, <3>2 DEF RunType
    <3>4. row.stage = "handler"
      OBVIOUS
    <3> HIDE DEF new, row
    <3>5. CASE run.mute
      <4>1. new.rows = <<>> /\ Len(new.rows) = 0
        BY <3>2, <3>3, <3>5
      <4>2. RunInv(new)
        BY <3>3, <3>5, <4>1 DEF RunInv, Early, Sends
      <4> QED BY <4>2 DEF new
    <3>6. CASE ~run.mute
      <4>1. new.rows = <<row>> /\ Len(new.rows) = 1 /\ new.rows[1] = row
        BY <3>2, <3>3, <3>6
      <4>2. ~new.lost => new.got = 0
        BY <1>1, <2>1, <3>3 DEF RunInv
      <4>3. RunInv(new)
        BY <3>3, <3>4, <4>1, <4>2 DEF RunInv, Early, Sends
      <4> QED BY <4>3 DEF new
    <3> QED BY <3>5, <3>6
  <2>2. CASE run.claimed # "none"
    <3>1. run.claimed \in Stages
      BY <1>1, <2>2 DEF RunType
    <3>2. ~Claims(run, "handler")
      BY <3>1 DEF Claims, Rank, Stages
    <3>3. rec = run
      BY <3>2 DEF Recorded
    <3> HIDE DEF rec, run
    <3>4. /\ new.pc = "over" /\ new.claimed = run.claimed /\ new.mute = run.mute
          /\ new.lost = run.lost /\ new.rows = run.rows /\ new.got = run.got
      BY <1>1, <3>3 DEF RunType
    <3> HIDE DEF new
    <3>5. RunInv(new)
      BY <1>1, <2>2, <3>4 DEF RunInv, Early, Sends
    <3> QED BY <3>5 DEF new
  <2> QED BY <2>1, <2>2
<1> HIDE DEF rec
<1>6. new \in RunType /\ Same(run, new) /\ new.got = run.got /\ new.pc = "over"
  BY <1>4 DEF RunType, Same
<1> HIDE DEF new
<1>7. RunInv(new)
  BY <1>5 DEF new
<1> QED BY <1>1, <1>2, <1>6, <1>7, QuietKeeps DEF Sends

LEMMA LateKeeps ==
  ASSUME IInv, NEW g \in Slots, Late(g)
  PROVE  IInv'
<1> DEFINE run == runs[g]
           new == [run EXCEPT !.late = TRUE, !.mute = TRUE]
<1>1. run \in RunType /\ RunInv(run) /\ UNCHANGED acks /\ Becomes(g, new)
  BY DEF IInv, TypeOK, LocalInv, Late
<1>2. new \in RunType /\ Same(run, new) /\ RunInv(new) /\ new.got = run.got /\ new.pc = run.pc
  BY <1>1, ZenonT(40) DEF RunType, Same, RunInv
<1> HIDE DEF new
<1> QED BY <1>1, <1>2, QuietKeeps

--------------------------------------------------------------------------------
(* An event is accepted.  A goroutine of this life that has been started   *)
(* for it before is older than dedupTTL: it is not in the table any more.  *)
LEMMA HandleKeeps ==
  ASSUME IInv, NEW e \in Events \cup {NoId}, Handle(e)
  PROVE  IInv'
<1> DEFINE new == started + 1
           run == Run(e, IF e \in Interactions THEN "ack" ELSE "dispatch", now, life)
<1>1. /\ new \in Slots /\ started' = new /\ started < MaxRuns /\ e \notin Table
      /\ runs' = [runs EXCEPT ![new] = run] /\ seen' = Marked(e)
      /\ UNCHANGED <<now, life, phase, acks>>
  BY LimitsAssumption DEF Handle, IInv, TypeOK, Slots
<1>2. run \in RunType /\ run.event = e /\ run.at = now /\ run.life = life /\ RunInv(run)
      /\ run.got = 0 /\ (e \in Interactions => run.pc = "ack")
  <2>1. <<>> \in Seq([stage : Stages, ok : BOOLEAN]) /\ Len(<<>>) = 0
    OBVIOUS
  <2>2. 1 \in 1..MaxAttempts /\ now \in 0..MaxTime /\ life \in Nat
    BY LimitsAssumption DEF IInv, TypeOK
  <2>3. run \in RunType /\ run.event = e /\ run.at = now /\ run.life = life
        /\ run.got = 0 /\ (e \in Interactions => run.pc = "ack")
    BY <2>1, <2>2 DEF Run, RunType
  <2>4. RunInv(run)
    BY <2>1 DEF Run, RunInv, Early
  <2> QED BY <2>3, <2>4
<1> HIDE DEF run
<1>3. 1..started \subseteq Slots /\ 1..started' = 1..started \cup {new} /\ started \in Nat
      /\ new \notin 1..started
  <2>1. started \in Nat /\ started < MaxRuns /\ MaxRuns \in Nat
    BY <1>1, LimitsAssumption DEF IInv, TypeOK
  <2>2. 1..(started + 1) = 1..started \cup {started + 1}
    BY <2>1
  <2>3. 1..started' = 1..started \cup {new}
    BY <1>1, <2>2
  <2> QED BY <2>1, <2>3 DEF Slots
<1>4. runs' \in [Slots -> RunType] /\ runs'[new] = run
      /\ \A h \in Slots \ {new} : runs'[h] = runs[h]
  BY <1>1, <1>2 DEF IInv, TypeOK
<1>5. /\ seen' \in [Events -> 0..MaxTime]
      /\ \A d \in Events : seen'[d] <= now
      /\ \A d \in Events : seen'[d] >= seen[d] \/ now - seen[d] > DedupTtl
      /\ e # NoId => e \in Events /\ seen'[e] = now
  <2>1. 0 \in 0..MaxTime /\ now \in 0..MaxTime /\ seen \in [Events -> 0..MaxTime]
    BY LimitsAssumption DEF IInv, TypeOK
  <2>2. Swept \in [Events -> 0..MaxTime]
    BY <2>1 DEF Swept, Unseen
  <2>3. \A d \in Events : Swept[d] = seen[d] \/ (Swept[d] = 0 /\ now - seen[d] > DedupTtl)
    BY <2>1 DEF Swept, Stale, Unseen
  <2>4. CASE e = NoId
    BY <1>1, <2>1, <2>4 DEF Marked, IInv, SeenInv
  <2>5. CASE e # NoId
    <3>1. e \in Events /\ seen' = [Swept EXCEPT ![e] = now]
      BY <1>1, <2>5 DEF Marked
    <3>2. seen'[e] = now /\ \A d \in Events \ {e} : seen'[d] = Swept[d]
      BY <2>2, <3>1
    <3>3. \A d \in Events : seen[d] <= now /\ seen[d] \in Nat
      BY <2>1 DEF IInv, SeenInv
    <3>4. \A d \in Events : seen'[d] <= now
      BY <2>1, <2>3, <3>2, <3>3
    <3>5. \A d \in Events : seen'[d] >= seen[d] \/ now - seen[d] > DedupTtl
      BY <2>1, <2>3, <3>2, <3>3
    <3> QED BY <2>1, <2>2, <3>1, <3>2, <3>4, <3>5
  <2> QED BY <2>4, <2>5
<1>6. TypeOK' /\ (now >= 1)' /\ SeenInv'
  BY <1>1, <1>4, <1>5 DEF IInv, TypeOK, SeenInv, Slots
<1>7. TimeInv'
  <2> SUFFICES ASSUME NEW g \in 1..started'
               PROVE  (runs[g].at \in 1..now /\ runs[g].life <= life /\ Remembered(runs[g]))'
    BY DEF TimeInv
  <2>0. now \in Nat /\ life \in Nat /\ now >= 1 /\ DedupTtl \in Nat
    BY LimitsAssumption DEF IInv, TypeOK
  <2>1. CASE g = new
    BY <1>1, <1>2, <1>4, <1>5, <2>0, <2>1 DEF Remembered
  <2>2. CASE g # new
    <3>1. g \in 1..started /\ g \in Slots /\ runs'[g] = runs[g]
      BY <1>3, <1>4, <2>2
    <3>2. /\ runs[g].at \in 1..now /\ runs[g].life <= life /\ Remembered(runs[g])
          /\ runs[g].event \in Events \cup {NoId}
      BY <3>1 DEF IInv, TimeInv, TypeOK, RunType
    <3>3. \A d \in Events : seen[d] \in Nat /\ seen'[d] \in Nat
      BY <1>5 DEF IInv, TypeOK
    <3>4. (Remembered(runs[g]))'
      BY <1>1, <1>5, <2>0, <3>1, <3>2, <3>3 DEF Remembered
    <3> QED BY <1>1, <3>1, <3>2, <3>4
  <2> QED BY <2>1, <2>2
<1>8. ProcessedOnce'
  <2> SUFFICES ASSUME NEW g \in 1..started', NEW h \in 1..started', g < h,
                      (runs[g].event = runs[h].event)', (runs[g].event # NoId)',
                      (runs[g].life = runs[h].life)'
               PROVE  (runs[h].at - runs[g].at > DedupTtl)'
    BY DEF ProcessedOnce
  <2>1. g \in 1..started /\ g \in Slots /\ runs'[g] = runs[g]
    BY <1>1, <1>3, <1>4
  <2>2. CASE h = new
    <3>1. runs[g].event = e /\ e \in Events /\ runs[g].life = life /\ runs'[h].at = now
      BY <1>2, <1>4, <2>1, <2>2
    <3>2. seen[e] = 0
      BY <1>1, <3>1 DEF Table, Unseen
    <3>3. runs[g].at \in 1..now /\ Remembered(runs[g]) /\ now \in Nat
      BY <2>1 DEF IInv, TimeInv, TypeOK
    <3>4. now - runs[g].at > DedupTtl
      BY <2>1, <3>1, <3>2, <3>3 DEF Remembered
    <3> QED BY <2>1, <3>1, <3>4
  <2>3. CASE h # new
    BY <1>3, <1>4, <2>1, <2>3 DEF IInv, ProcessedOnce
  <2> QED BY <2>2, <2>3
<1>9. AckInv'
  <2>1. \A h \in Slots \ {new} : runs'[h] = runs[h]
    BY <1>4
  <2>2. run.event \in Interactions => run.pc = "ack" /\ ~(run.got > 0)
    BY <1>2
  <2> QED BY <1>1, <1>4, <2>1, <2>2 DEF IInv, AckInv, Sends
<1>10. LocalInv'
  BY <1>2, <1>4 DEF IInv, LocalInv
<1> QED BY <1>6, <1>7, <1>8, <1>9, <1>10 DEF IInv

--------------------------------------------------------------------------------
(* Time passes, and the process ends.                                      *)
LEMMA TickKeeps ==
  ASSUME IInv, Tick
  PROVE  IInv'
<1>1. /\ now \in Nat /\ now' = now + 1 /\ now' \in 0..MaxTime /\ DedupTtl \in Nat
      /\ UNCHANGED <<life, phase, seen, started, runs, acks>>
  BY LimitsAssumption DEF IInv, TypeOK, Tick
<1>2. 1..started \subseteq Slots
  BY LimitsAssumption DEF IInv, TypeOK, Slots
<1>3. TypeOK' /\ (now >= 1)' /\ SeenInv'
  BY <1>1 DEF IInv, TypeOK, SeenInv
<1>4. TimeInv'
  <2> SUFFICES ASSUME NEW g \in 1..started
               PROVE  (runs[g].at \in 1..now /\ runs[g].life <= life /\ Remembered(runs[g]))'
    BY <1>1 DEF TimeInv
  <2>1. runs[g].at \in 1..now /\ runs[g].life <= life /\ Remembered(runs[g])
    BY DEF IInv, TimeInv
  <2> QED BY <1>1, <2>1 DEF Remembered
<1>5. ProcessedOnce' /\ AckInv' /\ LocalInv'
  BY <1>1 DEF IInv, ProcessedOnce, AckInv, LocalInv
<1> QED BY <1>3, <1>4, <1>5 DEF IInv

LEMMA ShutdownKeeps ==
  ASSUME IInv, Shutdown
  PROVE  IInv'
<1>1. phase' = "draining" /\ UNCHANGED <<now, life, seen, started, runs, acks>>
  BY DEF Shutdown
<1> QED BY <1>1 DEF IInv, TypeOK, SeenInv, TimeInv, Remembered, ProcessedOnce, AckInv, LocalInv

(* Both leave of a goroutine its event, its start and what it has sent.    *)
LEMMA EndsKeep ==
  ASSUME IInv, runs' \in [Slots -> RunType], UNCHANGED <<now, started, acks>>,
         \A g \in Slots : Same(runs[g], runs'[g]) /\ RunInv(runs'[g])
           /\ runs'[g].got = runs[g].got /\ runs'[g].pc \in {runs[g].pc, "killed"}
  PROVE  ProcessedOnce' /\ AckInv' /\ LocalInv'
<1>1. 1..started \subseteq Slots
  BY LimitsAssumption DEF IInv, TypeOK, Slots
<1>2. ProcessedOnce'
  BY <1>1 DEF IInv, ProcessedOnce, Same
<1>3. AckInv'
  <2> SUFFICES ASSUME NEW g \in Slots, runs'[g].event \in Interactions,
                      runs'[g].pc \in Sends \cup {"dispatch"} \/ runs'[g].got > 0
               PROVE  acks'[runs'[g].event] > 0
    BY DEF AckInv
  <2>1. runs[g].pc \in Sends \cup {"dispatch"} \/ runs[g].got > 0
    BY DEF Sends
  <2> QED BY <2>1 DEF IInv, AckInv, Same
<1>4. LocalInv'
  BY DEF LocalInv
<1> QED BY <1>2, <1>3, <1>4

LEMMA CloseKeeps ==
  ASSUME IInv, Close
  PROVE  IInv'
<1>1. /\ phase' = "closed" /\ UNCHANGED <<now, life, seen, started, acks>>
      /\ runs' = [g \in Slots |-> [runs[g] EXCEPT !.mute = @ \/ Running(g)]]
  BY DEF Close
<1>2. ASSUME NEW g \in Slots
      PROVE  /\ runs'[g] \in RunType /\ Same(runs[g], runs'[g]) /\ RunInv(runs'[g])
             /\ runs'[g].got = runs[g].got /\ runs'[g].pc = runs[g].pc
  <2> DEFINE run == runs[g]
             mute == run.mute \/ Running(g)
             new == [run EXCEPT !.mute = mute]
  <2>1. runs'[g] = new /\ run \in RunType /\ RunInv(run)
    BY <1>1 DEF IInv, TypeOK, LocalInv, RunType
  <2>2. mute \in BOOLEAN /\ (run.mute => mute)
    BY <2>1 DEF RunType
  <2> HIDE DEF mute, run
  <2>3. new \in RunType /\ Same(run, new) /\ RunInv(new) /\ new.got = run.got /\ new.pc = run.pc
    BY <2>1, <2>2 DEF RunType, Same, RunInv
  <2> QED BY <2>1, <2>3 DEF run
<1>3. runs' \in [Slots -> RunType]
  BY <1>1, <1>2
<1>4. ProcessedOnce' /\ AckInv' /\ LocalInv'
  BY <1>1, <1>2, <1>3, EndsKeep
<1>5. 1..started \subseteq Slots
  BY LimitsAssumption DEF IInv, TypeOK, Slots
<1>6. TimeInv'
  BY <1>1, <1>2, <1>5 DEF IInv, TimeInv, Remembered, Same
<1> QED BY <1>1, <1>3, <1>4, <1>6 DEF IInv, TypeOK, SeenInv

LEMMA RestartKeeps ==
  ASSUME IInv, Restart
  PROVE  IInv'
<1>1. /\ life' = life + 1 /\ phase' = "up" /\ seen' = [e \in Events |-> Unseen]
      /\ runs' = [g \in Slots |-> [runs[g] EXCEPT !.pc = IF Running(g) THEN "killed" ELSE @]]
      /\ UNCHANGED <<now, started, acks>>
  BY DEF Restart
<1>2. ASSUME NEW g \in Slots
      PROVE  /\ runs'[g] \in RunType /\ Same(runs[g], runs'[g]) /\ RunInv(runs'[g])
             /\ runs'[g].got = runs[g].got /\ runs'[g].pc \in {runs[g].pc, "killed"}
  <2> DEFINE run == runs[g]
             pc == IF Running(g) THEN "killed" ELSE run.pc
             new == [run EXCEPT !.pc = pc]
  <2>1. runs'[g] = new /\ run \in RunType /\ RunInv(run)
    BY <1>1 DEF IInv, TypeOK, LocalInv, RunType
  <2>2. pc \in {run.pc, "killed"}
    OBVIOUS
  <2> HIDE DEF pc, run
  <2>3. new \in RunType /\ Same(run, new) /\ new.got = run.got /\ new.pc = pc
    BY <2>1, <2>2 DEF RunType, Same
  <2>4. RunInv(new)
    BY <2>1, <2>2 DEF RunType, RunInv, Early, Sends
  <2> QED BY <2>1, <2>2, <2>3, <2>4 DEF run
<1>3. runs' \in [Slots -> RunType]
  BY <1>1, <1>2
<1>4. ProcessedOnce' /\ AckInv' /\ LocalInv'
  BY <1>1, <1>2, <1>3, EndsKeep
<1>5. 1..started \subseteq Slots
  BY LimitsAssumption DEF IInv, TypeOK, Slots
<1>6. life \in Nat /\ now \in Nat
  BY DEF IInv, TypeOK
<1>7. TimeInv'
  <2> SUFFICES ASSUME NEW g \in 1..started
               PROVE  (runs[g].at \in 1..now /\ runs[g].life <= life /\ Remembered(runs[g]))'
    BY <1>1 DEF TimeInv
  <2>1. runs[g].at \in 1..now /\ runs[g].life <= life /\ runs[g].life \in Nat
    BY <1>5 DEF IInv, TimeInv, TypeOK, RunType
  <2>2. Same(runs[g], runs'[g])
    BY <1>2, <1>5
  <2> QED BY <1>1, <1>6, <2>1, <2>2 DEF Remembered, Same
<1>8. seen' \in [Events -> 0..MaxTime] /\ \A e \in Events : seen'[e] <= now
  BY <1>1, <1>6, LimitsAssumption DEF Unseen
<1>9. SeenInv' /\ (now >= 1)'
  BY <1>1, <1>8 DEF IInv, SeenInv
<1>10. life' \in Nat /\ TypeOK
  BY <1>1, <1>6 DEF IInv
<1>11. TypeOK'
  BY <1>1, <1>3, <1>8, <1>10 DEF TypeOK
<1> QED BY <1>4, <1>7, <1>9, <1>11 DEF IInv

--------------------------------------------------------------------------------
LEMMA InitHolds == Init => IInv
<1> SUFFICES ASSUME Init PROVE IInv
  OBVIOUS
<1>1. 0 \in 0..MaxTime /\ 1 \in 0..MaxTime /\ 0 \in 0..MaxRuns /\ 1 \in 1..MaxAttempts
      /\ 1..0 = {} /\ <<>> \in Seq([stage : Stages, ok : BOOLEAN]) /\ Len(<<>>) = 0
  BY LimitsAssumption
<1>2. NoRun \in RunType /\ RunInv(NoRun) /\ NoRun.got = 0 /\ NoRun.pc = "idle"
  BY <1>1, EventsAssumption DEF NoRun, Run, RunType, RunInv, Early
<1>3. \A g \in Slots : runs[g] = NoRun
  BY DEF Init
<1>4. TypeOK /\ now >= 1 /\ SeenInv
  <2> HIDE DEF NoRun
  <2> QED BY <1>1, <1>2 DEF Init, TypeOK, SeenInv, Unseen
<1>5. AckInv /\ LocalInv
  BY <1>2, <1>3 DEF AckInv, LocalInv, Sends
<1>6. TimeInv /\ ProcessedOnce
  BY <1>1 DEF Init, TimeInv, ProcessedOnce
<1> QED BY <1>4, <1>5, <1>6 DEF IInv

LEMMA NextKeeps == IInv /\ [Next]_vars => IInv'
<1> SUFFICES ASSUME IInv, [Next]_vars PROVE IInv'
  OBVIOUS
<1>1. ASSUME NEW e \in Events \cup {NoId}, Handle(e) PROVE IInv'
  BY <1>1, HandleKeeps
<1>2. ASSUME NEW g \in Slots, Step(g) PROVE IInv'
  BY <1>2, AckKeeps, DispatchKeeps, SendKeeps, RecordKeeps DEF Step
<1>3. ASSUME NEW g \in Slots, Late(g) PROVE IInv'
  BY <1>3, LateKeeps
<1>4. CASE Tick \/ Shutdown \/ Close \/ Restart
  BY <1>4, TickKeeps, ShutdownKeeps, CloseKeeps, RestartKeeps
<1>5. CASE UNCHANGED vars
  BY <1>5 DEF vars, IInv, TypeOK, SeenInv, TimeInv, Remembered, ProcessedOnce, AckInv, LocalInv
<1> QED BY <1>1, <1>2, <1>3, <1>4, <1>5 DEF Next

LEMMA Inductive == Spec => []IInv
  BY InitHolds, NextKeeps, PTL DEF Spec

(* The clock, the table, the goroutines and the requests of the platform   *)
(* keep their types.                                                       *)
THEOREM EventTypeCorrect == Spec => []TypeOK
  BY Inductive, PTL DEF IInv

(* markSeen: in one life of the process an event is handled again only     *)
(* when more than dedupTTL has passed, whatever the size of the table.     *)
THEOREM EventsOnce == Spec => []ProcessedOnce
  BY Inductive, PTL DEF IInv

(* process: what answers a button press follows its acknowledgement.       *)
THEOREM AckFirst == Spec => []AckBeforeAnswer
<1>1. IInv => AckBeforeAnswer
  BY DEF IInv, AckInv, AckBeforeAnswer
<1> QED BY <1>1, Inductive, PTL

(* Dispatch and recordStats: every chain of fallbacks ends in one record.  *)
THEOREM OneRecordKept == Spec => []OneRecord
<1>1. IInv => OneRecord
  BY DEF IInv, LocalInv, RunInv, OneRecord
<1> QED BY <1>1, Inductive, PTL

(* afterSend: the record of an answer says whether the user has got it.    *)
THEOREM RecordsTell == Spec => []RecordTellsOutcome
<1>1. ASSUME IInv, NEW g \in Slots, NEW i \in 1..Len(runs[g].rows), ~runs[g].lost
      PROVE  LET row == runs[g].rows[i]
             IN row.ok /\ row.stage # "handler" <=> runs[g].got = 1
  <2>1. RunInv(runs[g]) /\ runs[g].rows \in Seq([stage : Stages, ok : BOOLEAN])
    BY <1>1 DEF IInv, LocalInv, TypeOK, RunType
  <2>3. Len(runs[g].rows) \in Nat /\ Len(runs[g].rows) <= 1
    BY <2>1 DEF RunInv
  <2>2. i = 1 /\ Len(runs[g].rows) = 1
    <3> DEFINE n == Len(runs[g].rows)
    <3>1. n \in Nat /\ n <= 1 /\ i \in 1..n
      BY <1>1, <2>3
    <3> HIDE DEF n
    <3>2. i = 1 /\ n = 1
      BY <3>1
    <3> QED BY <3>2 DEF n
  <2> QED BY <1>1, <2>1, <2>2 DEF RunInv
<1>2. IInv => RecordTellsOutcome
  BY <1>1 DEF RecordTellsOutcome
<1> QED BY <1>2, Inductive, PTL

--------------------------------------------------------------------------------
(* markSeen and the size of the table.                                     *)
LEMMA TableStays == UNCHANGED seen /\ OnlyFreshAboveLimit => OnlyFreshAboveLimit'
  BY DEF OnlyFreshAboveLimit, Table

(* A full table keeps only what is fresh; one that is not full cannot get  *)
(* above the limit by the one event that is added.                         *)
LEMMA MarkedFresh ==
  ASSUME IInv, NEW e \in Events, seen' = Marked(e)
  PROVE  OnlyFreshAboveLimit'
<1>1. now \in Nat /\ DedupTtl \in Nat /\ seen \in [Events -> 0..MaxTime] /\ e # NoId
  BY LimitsAssumption, EventsAssumption DEF IInv, TypeOK
<1>2. \A d \in Events : seen[d] \in Nat /\ seen[d] <= now
  BY <1>1, LimitsAssumption DEF IInv, SeenInv
<1>3. CASE Cardinality(Table) >= DedupMax
  <2>1. \A d \in Events : seen'[d] = IF d = e THEN now ELSE IF Stale(d) THEN Unseen ELSE seen[d]
    BY <1>1, <1>3 DEF Marked, Swept
  <2>2. ASSUME NEW d \in Table' PROVE seen'[d] \in Nat /\ seen'[d] <= now /\ now - seen'[d] <= DedupTtl
    <3>1. d \in Events /\ seen'[d] # Unseen
      BY <2>2 DEF Table
    <3>2. CASE d = e
      BY <1>1, <2>1, <3>1, <3>2
    <3>3. CASE d # e
      <4>1. seen'[d] = seen[d] /\ ~Stale(d) /\ seen[d] # Unseen
        BY <2>1, <3>1, <3>3
      <4>2. ~(now - seen[d] > DedupTtl)
        BY <4>1 DEF Stale
      <4> QED BY <1>1, <1>2, <3>1, <4>1, <4>2
    <3> QED BY <3>2, <3>3
  <2>3. ASSUME NEW d \in Table', NEW f \in Table' PROVE seen'[d] - seen'[f] <= DedupTtl
    BY <1>1, <2>2
  <2> QED BY <2>3 DEF OnlyFreshAboveLimit
<1>4. CASE ~(Cardinality(Table) >= DedupMax)
  <2>1. seen' = [seen EXCEPT ![e] = now]
    BY <1>1, <1>4 DEF Marked, Swept
  <2>2. Table' \subseteq Table \cup {e}
    BY <1>1, <2>1 DEF Table
  <2>3. IsFiniteSet(Table) /\ Cardinality(Table) \in Nat
    BY EventsAssumption, FS_Subset, FS_CardinalityType DEF Table
  <2>4. IsFiniteSet(Table \cup {e}) /\ Cardinality(Table \cup {e}) <= Cardinality(Table) + 1
    BY <2>3, FS_AddElement, SMTT(30)
  <2>5. Cardinality(Table') <= Cardinality(Table \cup {e})
    BY <2>2, <2>4, FS_Subset
  <2>6. Cardinality(Table') \in Nat /\ Cardinality(Table \cup {e}) \in Nat /\ DedupMax \in Nat
    BY <2>2, <2>4, FS_Subset, FS_CardinalityType, LimitsAssumption
  <2>7. Cardinality(Table') <= DedupMax
    BY <1>4, <2>3, <2>4, <2>5, <2>6
  <2> QED BY <2>6, <2>7 DEF OnlyFreshAboveLimit
<1> QED BY <1>3, <1>4

LEMMA NextKeepsFresh == IInv /\ OnlyFreshAboveLimit /\ [Next]_vars => OnlyFreshAboveLimit'
<1> SUFFICES ASSUME IInv, OnlyFreshAboveLimit, [Next]_vars PROVE OnlyFreshAboveLimit'
  OBVIOUS
<1>1. ASSUME NEW e \in Events \cup {NoId}, Handle(e) PROVE OnlyFreshAboveLimit'
  <2>1. CASE e = NoId
    BY <1>1, <2>1, TableStays DEF Handle, Marked
  <2>2. CASE e # NoId
    BY <1>1, <2>2, MarkedFresh DEF Handle
  <2> QED BY <2>1, <2>2
<1>2. ASSUME NEW g \in Slots, Step(g) \/ Late(g) PROVE OnlyFreshAboveLimit'
  <2>1. UNCHANGED seen
    BY <1>2 DEF Step, Ack, Dispatch, Send, Record, Late, Becomes
  <2> QED BY <2>1, TableStays
<1>3. CASE Tick \/ Shutdown \/ Close \/ UNCHANGED vars
  BY <1>3, TableStays DEF Tick, Shutdown, Close, vars
<1>4. CASE Restart
  <2>1. Table' = {}
    BY <1>4 DEF Restart, Table
  <2> QED BY <2>1 DEF OnlyFreshAboveLimit
<1> QED BY <1>1, <1>2, <1>3, <1>4 DEF Next

(* THEOREM.  The table of events seen holds more than dedupMaxEntries only *)
(* while as many have come within dedupTTL of each other.                  *)
THEOREM TableBounded == Spec => []OnlyFreshAboveLimit
<1>1. Init => OnlyFreshAboveLimit
  BY DEF Init, OnlyFreshAboveLimit, Table
<1> QED BY <1>1, NextKeepsFresh, Inductive, PTL DEF Spec
===============================================================================
