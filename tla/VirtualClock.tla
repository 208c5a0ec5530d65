---------------------------- MODULE VirtualClock ----------------------------
(* The virtual clock (accel/src/timer.rs) and a timer rescheduled on it by   *)
(* its own callback (schedule_ptimer in hw/timer/src/lib.rs).  step()        *)
(* advances the clock, pops the expired entries under the heap lock and      *)
(* calls them after releasing it, while another thread may cancel the handle *)
(* or schedule more at any of these points.                                  *)
EXTENDS Naturals, Sequences, SequencesExt

CONSTANTS MaxNs, MaxId,     \* bounds on the clock and on the timers ever added
          Period
VARIABLES dev, env

vars == <<dev, env>>

\* an entry is a tick of the scheduled timer, or some other one-shot timer
Init ==
  /\ dev = [ns |-> 0, heap |-> {}, nextid |-> 0, tid |-> 0, enabled |-> TRUE]
  /\ env = [expired |-> <<>>,      \* entries popped by the step in progress
            limit |-> 0,           \* the time that step advanced to
            due |-> FALSE,         \* it has yet to pop the entries due by then
            store |-> 0,           \* id the callback added but has not stored yet
            cstore |-> 0,          \* the same for schedule_ptimer itself
            cancelled |-> FALSE]   \* cancel() returned true, nothing scheduled since

Entry(ns, id, who) == [expire |-> ns, id |-> id, who |-> who]
Before(a, b) == a.expire < b.expire \/ (a.expire = b.expire /\ a.id < b.id)
\* the heap pops in (expire_time, id) order
Pop(h) == SetToSortSeq(h, Before)
Idle == env.expired = <<>> /\ env.store = 0 /\ ~env.due

Expired(ns) == {e \in dev.heap : e.expire <= ns}
PopExpiredLeft(ns) == dev.heap
PopExpired(ns) == dev.heap \ Expired(ns)
Step(delta) ==
  /\ Idle /\ dev.ns + delta <= MaxNs
  /\ dev' = [dev EXCEPT !.ns = @ + delta]
  /\ env' = [env EXCEPT !.limit = dev.ns + delta, !.due = TRUE]
CollectExpired ==
  /\ env.due
  /\ dev' = [dev EXCEPT !.heap = PopExpired(env.limit)]
  /\ env' = [env EXCEPT !.expired = Pop(Expired(env.limit)), !.due = FALSE]

AddTimer(d, e) == [d EXCEPT !.heap = @ \cup {e}, !.nextid = @ + 1]
NextId == dev.nextid + 1
\* a one-shot timer of another user of the clock
AddOther(ns) ==
  /\ NextId <= MaxId
  /\ dev' = AddTimer(dev, Entry(ns, NextId, "other")) /\ UNCHANGED env
\* schedule_next: add the timer, then remember its id
ScheduleNext(d) ==
  IF d.enabled /\ NextId <= MaxId THEN AddTimer(d, Entry(d.ns + Period, NextId, "tick")) ELSE d
ScheduledId(d) == IF d.enabled /\ NextId <= MaxId THEN NextId ELSE 0
Schedule ==
  /\ env.cstore = 0 /\ dev.tid = 0 /\ NextId <= MaxId
  /\ ~ \E e \in dev.heap : e.who = "tick"
  /\ ~ \E i \in 1 .. Len(env.expired) : env.expired[i].who = "tick"
  /\ env.store = 0
  /\ dev' = ScheduleNext(dev)
  /\ env' = [env EXCEPT !.cstore = ScheduledId(dev), !.cancelled = FALSE]
ScheduleStore ==
  /\ env.cstore # 0
  /\ dev' = [dev EXCEPT !.tid = env.cstore]
  /\ env' = [env EXCEPT !.cstore = 0]
\* the callbacks of a step, one after the other; a tick may stop the timer
Fire(off) ==
  /\ env.expired # <<>> /\ env.store = 0
  /\ LET e == Head(env.expired)
         d == IF off THEN [dev EXCEPT !.enabled = FALSE] ELSE dev
     IN /\ off => e.who = "tick"
        /\ dev' = IF e.who = "tick" THEN ScheduleNext(d) ELSE dev
        /\ env' = [env EXCEPT !.expired = Tail(@),
                              !.store = IF e.who = "tick" THEN ScheduledId(d) ELSE 0]
FireStore ==
  /\ env.store # 0
  /\ dev' = [dev EXCEPT !.tid = env.store]
  /\ env' = [env EXCEPT !.store = 0]
\* the id is looked up and removed under the handle's lock
Removed == {e \in dev.heap : e.id = dev.tid}
Cancel ==
  /\ dev.tid # 0 /\ env.cstore = 0
  /\ dev' = [dev EXCEPT !.heap = @ \ Removed, !.tid = 0]
  /\ env' = [env EXCEPT !.cancelled = Removed # {}]
Enable == ~dev.enabled /\ dev' = [dev EXCEPT !.enabled = TRUE] /\ UNCHANGED env

Next ==
  \/ \E n \in 1 .. 2 : Step(n)
  \/ CollectExpired
  \/ \E n \in dev.ns + 1 .. MaxNs : AddOther(n)
  \/ Schedule \/ ScheduleStore \/ FireStore \/ Cancel \/ Enable
  \/ \E off \in BOOLEAN : Fire(off)

-----------------------------------------------------------------------------
\* Once cancel() has returned true the chain is over: no tick of the handle is in
\* the heap, none is waiting to be called, and none is about to be rescheduled.
\* (A cancel that returns false may find the callback already popped, and the
\* chain goes on: lib.rs:344-387, timer.rs:85-108.)
CancelHolds ==
  env.cancelled =>
    /\ env.store = 0
    /\ \A e \in dev.heap : e.who # "tick"
    /\ \A i \in 1 .. Len(env.expired) : env.expired[i].who # "tick"

\* The callbacks of one step run in expiry order, each because its time had come,
\* and none of them is still in the heap to fire a second time (timer.rs:85-108).
FiresInOrder ==
  LET n == Len(env.expired)
  IN /\ \A i \in 1 .. n : env.expired[i].expire <= env.limit /\ env.expired[i] \notin dev.heap
     /\ \A i, j \in 1 .. n : i < j => env.expired[i].expire <= env.expired[j].expire
=============================================================================
