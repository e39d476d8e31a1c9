-------------------------------- MODULE Accel --------------------------------
(***************************************************************************)
(* The accelerometer driver of mma8452/, called by the two threads of the  *)
(* program with nothing that keeps them apart.  A step is one access to a  *)
(* register, so another thread can move between the read and the write of  *)
(* mma8452_standby and mma8452_active, and between the two.                *)
(*                                                                         *)
(* Of the registers (external) the model has CTRL_REG1, of which the       *)
(* driver can set ACTIVE (1) and, by accident, F_READ (2), and the two     *)
(* range bits of XYZ_DATA_CFG.  The data rate is 0 whatever is asked for.  *)
(* The device id is not looked at by either caller.                        *)
(***************************************************************************)
EXTENDS Naturals

CONSTANTS
  Threads,
  Scales        \* the ranges that are asked for, in g

ASSUME AccelAssumption == Scales \subseteq {2, 4, 8}

VARIABLES
  at,           \* where each thread is in mma8452_config; "out": outside
  scale,        \* the argument of the mma8452_config a thread is in, or was last
  value,        \* what it has read of CTRL_REG1: value, or cfg
  opened,       \* external: the I2C bus has been opened
  ctrl,         \* external: CTRL_REG1
  range,        \* external: the range bits, scale >> 2
  failed,       \* history: an access has failed since power was applied
  stale,        \* history: cfg went to CTRL_REG1 without having been read from it
  took          \* history: what a thread last configured no other thread has
                \* disturbed since, and no access of it failed

registers == <<ctrl, range>>
avars == <<at, scale, value, opened, registers, failed, stale, took>>

Location == {"out", "standby read", "standby write", "range", "rate read", "rate write",
             "active read", "active write"}

AInit ==
  /\ at = [t \in Threads |-> "out"]
  /\ scale = [t \in Threads |-> 8]
  /\ value = [t \in Threads |-> 0]
  /\ opened = FALSE
  /\ ctrl = 0 /\ range = 0
  /\ failed = FALSE /\ stale = FALSE
  /\ took = [t \in Threads |-> FALSE]

Active(v) == v % 2 = 1
FastRead(v) == v >= 2

\* value & ~ACTIVE, value | ACTIVE
standby_bits(v) == v - (v % 2)
active_bits(v) == standby_bits(v) + 1

Goto(t, l) == at' = [at EXCEPT ![t] = l]

\* "Must be in standby to change registers": what a write of v to CTRL_REG1 may
\* leave there.  The ACTIVE bit can be written in either mode.
Written(v) ==
  IF Active(ctrl) THEN {v, standby_bits(ctrl) + (v % 2)} ELSE {v}

\* An access fails on a bus nobody has opened, and may on any other.
succeeds == opened /\ UNCHANGED failed
fails == failed' = TRUE

-----------------------------------------------------------------------------
\* eat_i2c_open may find the bus open, or fail; the result changes nothing.
mma8452_init(t) ==
  /\ at[t] = "out"
  /\ opened' \in {opened, TRUE}
  /\ UNCHANGED <<at, scale, value, registers, failed, stale, took>>

\* took starts as the hope that nobody else is, or gets, in the way.
mma8452_config(t, s) ==
  /\ at[t] = "out"
  /\ Goto(t, "standby read")
  /\ scale' = [scale EXCEPT ![t] = s]
  /\ took' = [u \in Threads |->
                u = t /\ \A other \in Threads \ {t} : at[other] = "out"]
  /\ UNCHANGED <<value, opened, registers, failed, stale>>

Lost(t) == took' = [took EXCEPT ![t] = FALSE]

\* Whether mma8452_standby did anything is not looked at.
standby_read(t) ==
  /\ at[t] = "standby read"
  /\ \/ /\ succeeds
        /\ value' = [value EXCEPT ![t] = ctrl]
        /\ Goto(t, "standby write")
        /\ UNCHANGED took
     \/ /\ fails
        /\ Goto(t, "range")
        /\ Lost(t)
        /\ UNCHANGED value
  /\ UNCHANGED <<scale, opened, registers, stale>>

standby_kept(t) ==      \* a mutant: mma8452_standby writes back what it read
  /\ at[t] = "standby write"
  /\ \/ succeeds /\ ctrl' = value[t] /\ UNCHANGED took
     \/ fails /\ UNCHANGED ctrl /\ Lost(t)
  /\ Goto(t, "range")
  /\ UNCHANGED <<scale, value, opened, range, stale>>

standby_write(t) ==
  /\ at[t] = "standby write"
  /\ \/ succeeds /\ ctrl' \in Written(standby_bits(value[t])) /\ UNCHANGED took
     \/ fails /\ UNCHANGED ctrl /\ Lost(t)
  /\ Goto(t, "range")
  /\ UNCHANGED <<scale, value, opened, range, stale>>

\* The other bits of XYZ_DATA_CFG are 0, as is cfg, so nothing depends on
\* whether they can be read.
config_range(t) ==
  /\ at[t] = "range"
  /\ \/ /\ succeeds
        /\ range' \in (IF Active(ctrl) THEN {range} ELSE {}) \cup {scale[t] \div 4}
        /\ UNCHANGED took
     \/ fails /\ UNCHANGED range /\ Lost(t)
  /\ Goto(t, "rate read")
  /\ UNCHANGED <<scale, value, opened, ctrl, stale>>

rate_unread(t) ==       \* a mutant: the register is not read into cfg
  /\ at[t] = "rate read"
  /\ \/ succeeds /\ UNCHANGED took
     \/ fails /\ Lost(t)
  /\ value' = [value EXCEPT ![t] = scale[t] \div 4]
  /\ Goto(t, "rate write")
  /\ UNCHANGED <<scale, opened, registers, stale>>

\* A failed read leaves cfg as it is: what was written to XYZ_DATA_CFG.
rate_read(t) ==
  /\ at[t] = "rate read"
  /\ \/ succeeds /\ value' = [value EXCEPT ![t] = ctrl] /\ UNCHANGED <<took, stale>>
     \/ /\ fails
        /\ value' = [value EXCEPT ![t] = scale[t] \div 4]
        /\ stale' = (stale \/ FastRead(scale[t] \div 4))
        /\ Lost(t)
  /\ Goto(t, "rate write")
  /\ UNCHANGED <<scale, opened, registers>>

rate_write(t) ==
  /\ at[t] = "rate write"
  /\ \/ succeeds /\ ctrl' \in Written(value[t]) /\ UNCHANGED took
     \/ fails /\ UNCHANGED ctrl /\ Lost(t)
  /\ Goto(t, "active read")
  /\ UNCHANGED <<scale, value, opened, range, stale>>

active_read(t) ==
  /\ at[t] = "active read"
  /\ \/ /\ succeeds
        /\ value' = [value EXCEPT ![t] = ctrl]
        /\ Goto(t, "active write")
        /\ UNCHANGED took
     \/ /\ fails
        /\ Goto(t, "out")
        /\ Lost(t)
        /\ UNCHANGED value
  /\ UNCHANGED <<scale, opened, registers, stale>>

active_kept(t) ==       \* a mutant: mma8452_active writes back what it read
  /\ at[t] = "active write"
  /\ \/ succeeds /\ ctrl' \in Written(value[t]) /\ UNCHANGED took
     \/ fails /\ UNCHANGED ctrl /\ Lost(t)
  /\ Goto(t, "out")
  /\ UNCHANGED <<scale, value, opened, range, stale>>

active_write(t) ==
  /\ at[t] = "active write"
  /\ \/ succeeds /\ ctrl' \in Written(active_bits(value[t])) /\ UNCHANGED took
     \/ fails /\ UNCHANGED ctrl /\ Lost(t)
  /\ Goto(t, "out")
  /\ UNCHANGED <<scale, value, opened, range, stale>>

\* An access of a thread that is in mma8452_config.
access(t) ==
  \/ standby_read(t) \/ standby_write(t) \/ config_range(t)
  \/ rate_read(t) \/ rate_write(t) \/ active_read(t) \/ active_write(t)

\* The module restarts, which the chip does not notice unless power was lost.
accel_restart(power) ==
  /\ at' = [t \in Threads |-> "out"]
  /\ scale' = [t \in Threads |-> 8]
  /\ value' = [t \in Threads |-> 0]
  /\ opened' = FALSE
  /\ took' = [t \in Threads |-> FALSE]
  /\ IF power
     THEN ctrl' = 0 /\ range' = 0 /\ failed' = FALSE /\ stale' = FALSE
     ELSE UNCHANGED <<registers, failed, stale>>
=============================================================================
