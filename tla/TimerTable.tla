------------------------------ MODULE TimerTable ------------------------------
(***************************************************************************)
(* The software timers of driver/timer/timer.c over the single hardware    *)
(* timer of hw/timer/timer64/t64.c, as operators on a record               *)
(*   [timer |-> [Blocks -> block], num_active_timers, timer_created].      *)
(* Time is counted in ticks: the hardware timer is a 100 ms one-shot, the  *)
(* timeouts are multiples of 100 ms, and timer_run takes 100 off each      *)
(* running timer.  A block is free when its expiry routine is NULL.        *)
(***************************************************************************)
EXTENDS Integers, FiniteSets, FiniteSetsExt

CONSTANT MAX_TIMER_BLOCKS \* 5 in timer.c

ASSUME TimerBlocksAssumption == MAX_TIMER_BLOCKS \in Nat \ {0}

Blocks == 0 .. MAX_TIMER_BLOCKS - 1

\* The routines that are ever registered; "NULL" marks a free block.
Expiries == {"tftp_timer_expiry", "bootp_tmr_expiry"}

FreeBlock == [expiry |-> "NULL", org_timeout |-> 0, timeout |-> 0]

TimerInit ==
    [timer |-> [i \in Blocks |-> FreeBlock],
     num_active_timers |-> 0,
     timer_created |-> FALSE]

Armed(t) == {i \in Blocks : t.timer[i].expiry # "NULL"}

\* timer_add succeeds if a block is free and, for the first timer, the
\* device timer can be created; dev_create_timer refuses to create it twice.
CanAdd(t) ==
    /\ Armed(t) # Blocks
    /\ t.num_active_timers = 0 => ~t.timer_created

\* The handle timer_add returns: the first free block.
AddedHandle(t) == IF CanAdd(t) THEN Min(Blocks \ Armed(t)) ELSE -1

TimerAdd(t, timeout, expiry) ==
    IF CanAdd(t)
    THEN [timer |-> [t.timer EXCEPT ![AddedHandle(t)] =
                        [expiry |-> expiry, org_timeout |-> timeout, timeout |-> timeout]],
          num_active_timers |-> t.num_active_timers + 1,
          timer_created |-> TRUE]
    ELSE t

\* A variant that leaves the active count alone.
TimerDeleteKeepsCount(t, handle) ==
    IF handle < 0 \/ handle > MAX_TIMER_BLOCKS \/ t.num_active_timers = 0
    THEN t
    ELSE [t EXCEPT !.timer = [i \in Blocks |-> IF i = handle THEN FreeBlock ELSE @[i]]]

\* timer_delete clears the block and lowers the count whether or not the
\* block was in use; the last one deletes the device timer.
TimerDelete(t, handle) ==
    IF handle < 0 \/ handle > MAX_TIMER_BLOCKS \/ t.num_active_timers = 0
    THEN t
    ELSE [timer |-> [i \in Blocks |-> IF i = handle THEN FreeBlock ELSE t.timer[i]],
          num_active_timers |-> t.num_active_timers - 1,
          timer_created |-> t.timer_created /\ t.num_active_timers # 1]

\* One turn of timer_run's loop: the block counts down, and reloads itself
\* before its routine is called.
Expires(t, i) == t.timer[i].expiry # "NULL" /\ t.timer[i].timeout = 1

CountDown(t, i) ==
    IF t.timer[i].expiry = "NULL" THEN t
    ELSE [t EXCEPT !.timer[i].timeout =
             IF Expires(t, i) THEN t.timer[i].org_timeout ELSE @ - 1]

\* timer_run looks at the hardware only while some timer is active, and the
\* hardware can only be due if it was created.
CanTick(t) == t.num_active_timers > 0 /\ t.timer_created

TimerTableType(t, maxTimeout) ==
    /\ t.timer \in [Blocks -> [expiry : Expiries \cup {"NULL"},
                               org_timeout : 0 .. maxTimeout,
                               timeout : 0 .. maxTimeout]]
    /\ t.num_active_timers \in 0 .. MAX_TIMER_BLOCKS
    /\ t.timer_created \in BOOLEAN
==============================================================================
