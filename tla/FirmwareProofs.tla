--------------------------- MODULE FirmwareProofs ---------------------------
(***************************************************************************)
(* Theorems about Firmware, for every set of ranges with the timer         *)
(* thread's 8, every heap and every number of calls and restarts.          *)
(***************************************************************************)
EXTENDS Firmware, TLAPS

-----------------------------------------------------------------------------
(* The inductive invariant *)

AType ==
  /\ at \in [Threads -> Location]
  /\ scale \in [Threads -> Scales]
  /\ value \in [Threads -> 0 .. 3]
  /\ opened \in BOOLEAN
  /\ ctrl \in 0 .. 3 /\ range \in 0 .. 2
  /\ failed \in BOOLEAN /\ stale \in BOOLEAN
  /\ took \in [Threads -> BOOLEAN]

UType ==
  /\ up \in {"out", "erase", "write", "update"}
  /\ data \in BOOLEAN /\ buffers \in 0 .. HeapBlocks
  /\ storage \in BOOLEAN /\ run \in BOOLEAN
  /\ pending \in {"none", "copy", "done", "failed"} /\ blind \in BOOLEAN

FType ==
  /\ main \in {"core", "boot", "loop"} /\ timer \in {"init", "config", "loop"}
  /\ calls \in 0 .. MaxCalls /\ restarts \in 0 .. MaxRestarts

LEMMA TypeParts == TypeOK <=> AType /\ UType /\ FType
BY DEF TypeOK, AType, UType, FType

Ranged(t) == range = scale[t] \div 4

\* What a thread that nobody disturbs and that sees no failure has done so far.
Undisturbed(t) ==
  /\ \A u \in Threads \ {t} : at[u] = "out"
  /\ at[t] = "standby write" => value[t] = ctrl
  /\ at[t] \in {"range", "rate read", "rate write", "active read", "active write"} => ~Active(ctrl)
  /\ at[t] \in {"rate read", "rate write", "active read", "active write", "out"} => Ranged(t)
  /\ at[t] \in {"rate write", "active write"} => value[t] = ctrl
  /\ at[t] = "out" => Active(ctrl)

\* F_READ is in no copy of CTRL_REG1 either.
Clean ==
  ~stale => ~FastRead(ctrl) /\ \A t \in Threads : ~FastRead(value[t])

AInv == AType /\ (\A t \in Threads : took[t] => Undisturbed(t)) /\ Clean

\* What the core is told to copy is what was read, and nobody writes to it.
Chain ==
  /\ up = "update" => storage = data
  /\ pending = "copy" => storage \/ blind
  /\ pending \notin {"copy", "failed"} => run \/ blind

UInv == UType /\ Chain

Booted == IF Running THEN pending # "copy" ELSE timer = "init"

Inv == AInv /\ UInv /\ FType /\ Booted /\ CollisionsAwake

-----------------------------------------------------------------------------
(* The bits of CTRL_REG1 *)

LEMMA Bits ==
  ASSUME NEW v \in 0 .. 3
  PROVE  /\ standby_bits(v) \in 0 .. 3 /\ ~Active(standby_bits(v))
         /\ active_bits(v) \in 0 .. 3 /\ Active(active_bits(v))
         /\ FastRead(standby_bits(v)) <=> FastRead(v)
         /\ FastRead(active_bits(v)) <=> FastRead(v)
<1>1. v = 0 \/ v = 1 \/ v = 2 \/ v = 3
  OBVIOUS
<1> QED
  BY <1>1 DEF standby_bits, active_bits, Active, FastRead

\* A write takes the ACTIVE bit over in either mode, and can only give F_READ
\* to a register from the value or from the register itself.
LEMMA WrittenBits ==
  ASSUME AType, NEW v \in 0 .. 3, NEW c \in Written(v)
  PROVE  /\ c \in 0 .. 3
         /\ Active(c) <=> Active(v)
         /\ FastRead(c) => FastRead(v) \/ FastRead(ctrl)
         /\ ~Active(ctrl) => c = v
<1>1. v = 0 \/ v = 1 \/ v = 2 \/ v = 3
  OBVIOUS
<1>2. ctrl = 0 \/ ctrl = 1 \/ ctrl = 2 \/ ctrl = 3
  BY DEF AType
<1>3. c = v \/ (Active(ctrl) /\ c = standby_bits(ctrl) + (v % 2))
  BY DEF Written
<1> QED
  BY <1>1, <1>2, <1>3 DEF standby_bits, Active, FastRead

\* mma8452_standby on what it has just read leaves a chip in standby.
LEMMA StandbyWritten ==
  ASSUME AType, NEW c \in Written(standby_bits(ctrl))
  PROVE  ~Active(c)
BY Bits, WrittenBits DEF AType

LEMMA Ranges ==
  ASSUME NEW s \in Scales
  PROVE  s \div 4 \in 0 .. 2 /\ s \div 4 \in 0 .. 3
<1>1. s = 2 \/ s = 4 \/ s = 8
  BY AccelAssumption
<1> QED
  BY <1>1

-----------------------------------------------------------------------------
(* The accelerometer *)

LEMMA AInitInv == AInit => AInv
<1> SUFFICES ASSUME AInit PROVE AInv
  OBVIOUS
<1>1. AType
  <2>1. 8 \in Scales /\ 0 \in 0 .. 3 /\ 0 \in 0 .. 2 /\ "out" \in Location
    BY FirmwareAssumption DEF Location
  <2> QED
    BY <2>1, Zenon DEF AInit, AType
<1>2. \A t \in Threads : ~took[t]
  BY DEF AInit
<1>3. Clean
  BY DEF AInit, Clean, FastRead
<1> QED
  BY <1>1, <1>2, <1>3 DEF AInv

LEMMA InitCall == ASSUME NEW t \in Threads PROVE AInv /\ mma8452_init(t) => AInv'
<1> SUFFICES ASSUME AInv, mma8452_init(t) PROVE AInv'
  OBVIOUS
<1>1. UNCHANGED <<at, scale, value, ctrl, range, failed, stale, took>> /\ opened' \in BOOLEAN
  BY DEF mma8452_init, registers, AInv, AType
<1>2. AType'
  BY <1>1 DEF AInv, AType
<1>3. ASSUME NEW u \in Threads, took'[u] PROVE Undisturbed(u)'
  BY <1>1, <1>3 DEF AInv, Undisturbed, Ranged
<1>4. Clean'
  BY <1>1 DEF AInv, Clean
<1> QED
  BY <1>2, <1>3, <1>4 DEF AInv

LEMMA ConfigCall ==
  ASSUME NEW t \in Threads, NEW s \in Scales PROVE AInv /\ mma8452_config(t, s) => AInv'
<1> SUFFICES ASSUME AInv, mma8452_config(t, s) PROVE AInv'
  OBVIOUS
<1> USE DEF AInv, mma8452_config, registers, Goto
<1>1. AType'
  BY DEF AType, Location
<1>2. ASSUME NEW u \in Threads, took'[u] PROVE Undisturbed(u)'
  BY <1>2 DEF AType, Undisturbed
<1>3. Clean'
  BY DEF Clean
<1> QED
  BY <1>1, <1>2, <1>3

LEMMA RestartCall == ASSUME NEW power \in BOOLEAN PROVE AInv /\ accel_restart(power) => AInv'
<1> SUFFICES ASSUME AInv, accel_restart(power) PROVE AInv'
  OBVIOUS
<1>1. /\ ctrl' \in 0 .. 3 /\ range' \in 0 .. 2
      /\ failed' \in BOOLEAN /\ stale' \in BOOLEAN
  <2>1. 0 \in 0 .. 3 /\ 0 \in 0 .. 2
    OBVIOUS
  <2> QED
    BY <2>1, Zenon DEF AInv, accel_restart, registers, AType
<1>2. AType'
  <2>1. 8 \in Scales /\ 0 \in 0 .. 3 /\ "out" \in Location
    BY FirmwareAssumption DEF Location
  <2> QED
    BY <1>1, <2>1, Zenon DEF accel_restart, AType
<1>3. \A t \in Threads : ~took'[t]
  BY DEF accel_restart
<1>4. Clean'
  BY DEF AInv, accel_restart, registers, Clean, FastRead
<1> QED
  BY <1>2, <1>3, <1>4 DEF AInv

\* Of two threads that both hope to be undisturbed one is outside.
LEMMA Alone ==
  ASSUME AInv, NEW t \in Threads, NEW u \in Threads, at[t] # "out", took[u]
  PROVE  u = t
BY DEF AInv, Undisturbed

LEMMA StandbyRead == ASSUME NEW t \in Threads PROVE AInv /\ standby_read(t) => AInv'
<1> SUFFICES ASSUME AInv, standby_read(t) PROVE AInv'
  OBVIOUS
<1> USE DEF AInv, standby_read, registers, Goto, succeeds, fails, Lost
<1>1. AType'
  BY DEF AType, Location
<1>2. ASSUME NEW u \in Threads, took'[u] PROVE Undisturbed(u)'
  <2>1. took[u] /\ u = t
    BY <1>2, Alone DEF AType
  <2> QED
    BY <1>2, <2>1 DEF AType, Undisturbed
<1>3. Clean'
  BY DEF Clean, AType
<1> QED
  BY <1>1, <1>2, <1>3

LEMMA StandbyWrite == ASSUME NEW t \in Threads PROVE AInv /\ standby_write(t) => AInv'
<1> SUFFICES ASSUME AInv, standby_write(t) PROVE AInv'
  OBVIOUS
<1> USE DEF AInv, standby_write, Goto, succeeds, fails, Lost
<1>1. value[t] \in 0 .. 3 /\ standby_bits(value[t]) \in 0 .. 3
  BY Bits DEF AType
<1>2. AType'
  BY <1>1, WrittenBits DEF AType, Location
<1>3. ASSUME NEW u \in Threads, took'[u] PROVE Undisturbed(u)'
  <2>1. took[u] /\ u = t
    BY <1>3, Alone DEF AType
  <2>2. value[t] = ctrl /\ ctrl' \in Written(standby_bits(ctrl))
    BY <1>3, <2>1 DEF Undisturbed, AType
  <2>3. ~Active(ctrl')
    BY <2>2, StandbyWritten
  <2> QED
    BY <1>3, <2>1, <2>3 DEF AType, Undisturbed
<1>4. Clean'
  BY <1>1, Bits, WrittenBits DEF Clean
<1> QED
  BY <1>2, <1>3, <1>4

LEMMA ConfigRange == ASSUME NEW t \in Threads PROVE AInv /\ config_range(t) => AInv'
<1> SUFFICES ASSUME AInv, config_range(t) PROVE AInv'
  OBVIOUS
<1> USE DEF AInv, config_range, Goto, succeeds, fails, Lost
<1>1. AType'
  BY Ranges DEF AType, Location
<1>2. ASSUME NEW u \in Threads, took'[u] PROVE Undisturbed(u)'
  <2>1. took[u] /\ u = t
    BY <1>2, Alone DEF AType
  <2>2. range' = scale[t] \div 4
    BY <1>2, <2>1 DEF Undisturbed, AType
  <2> QED
    BY <1>2, <2>1, <2>2 DEF AType, Undisturbed, Ranged
<1>3. Clean'
  BY DEF Clean
<1> QED
  BY <1>1, <1>2, <1>3

LEMMA RateRead == ASSUME NEW t \in Threads PROVE AInv /\ rate_read(t) => AInv'
<1> SUFFICES ASSUME AInv, rate_read(t) PROVE AInv'
  OBVIOUS
<1> USE DEF AInv, rate_read, registers, Goto, succeeds, fails, Lost
<1>1. scale[t] \div 4 \in 0 .. 3
  <2>1. scale[t] \in Scales
    BY DEF AType
  <2> QED
    BY <2>1, Ranges
<1>2. AType'
  BY <1>1 DEF AType, Location
<1>3. ASSUME NEW u \in Threads, took'[u] PROVE Undisturbed(u)'
  <2>1. took[u] /\ u = t
    BY <1>3, Alone DEF AType
  <2> QED
    BY <1>3, <2>1 DEF AType, Undisturbed, Ranged
<1>4. Clean'
  BY DEF Clean, AType
<1> QED
  BY <1>2, <1>3, <1>4

LEMMA RateWrite == ASSUME NEW t \in Threads PROVE AInv /\ rate_write(t) => AInv'
<1> SUFFICES ASSUME AInv, rate_write(t) PROVE AInv'
  OBVIOUS
<1> USE DEF AInv, rate_write, Goto, succeeds, fails, Lost
<1>1. value[t] \in 0 .. 3
  BY DEF AType
<1>2. AType'
  BY <1>1, WrittenBits DEF AType, Location
<1>3. ASSUME NEW u \in Threads, took'[u] PROVE Undisturbed(u)'
  <2>1. took[u] /\ u = t
    BY <1>3, Alone DEF AType
  <2>2. ~Active(ctrl) /\ value[t] = ctrl /\ ctrl' \in Written(ctrl)
    BY <1>3, <2>1 DEF Undisturbed, AType
  <2>3. ~Active(ctrl')
    BY <1>1, <2>2, WrittenBits
  <2> QED
    BY <1>3, <2>1, <2>3 DEF AType, Undisturbed, Ranged
<1>4. Clean'
  BY <1>1, WrittenBits DEF Clean
<1> QED
  BY <1>2, <1>3, <1>4

LEMMA ActiveRead == ASSUME NEW t \in Threads PROVE AInv /\ active_read(t) => AInv'
<1> SUFFICES ASSUME AInv, active_read(t) PROVE AInv'
  OBVIOUS
<1> USE DEF AInv, active_read, registers, Goto, succeeds, fails, Lost
<1>1. AType'
  BY DEF AType, Location
<1>2. ASSUME NEW u \in Threads, took'[u] PROVE Undisturbed(u)'
  <2>1. took[u] /\ u = t
    BY <1>2, Alone DEF AType
  <2> QED
    BY <1>2, <2>1 DEF AType, Undisturbed, Ranged
<1>3. Clean'
  BY DEF Clean, AType
<1> QED
  BY <1>1, <1>2, <1>3

LEMMA ActiveWrite ==
  ASSUME NEW t \in Threads
  PROVE  AInv /\ active_write(t) => AInv' /\ (~failed' => Active(ctrl'))
<1> SUFFICES ASSUME AInv, active_write(t) PROVE AInv' /\ (~failed' => Active(ctrl'))
  OBVIOUS
<1> USE DEF AInv, active_write, Goto, succeeds, fails, Lost
<1>1. /\ value[t] \in 0 .. 3
      /\ active_bits(value[t]) \in 0 .. 3 /\ Active(active_bits(value[t]))
  BY Bits DEF AType
<1>2. AType'
  BY <1>1, WrittenBits DEF AType, Location
<1>3. ctrl' \in Written(active_bits(value[t])) => Active(ctrl')
  BY <1>1, WrittenBits
<1>4. ASSUME NEW u \in Threads, took'[u] PROVE Undisturbed(u)'
  <2>1. took[u] /\ u = t
    BY <1>4, Alone DEF AType
  <2>2. ctrl' \in Written(active_bits(value[t]))
    BY <1>4, <2>1 DEF AType
  <2> QED
    BY <1>3, <1>4, <2>1, <2>2 DEF AType, Undisturbed, Ranged
<1>5. Clean'
  BY <1>1, Bits, WrittenBits DEF Clean
<1> QED
  BY <1>2, <1>3, <1>4, <1>5

\* A thread that leaves the driver without a failure leaves the chip measuring.
LEMMA AccessKeeps ==
  ASSUME NEW t \in Threads
  PROVE  AInv /\ access(t) => AInv' /\ (~failed' /\ at'[t] = "out" => Active(ctrl'))
<1> SUFFICES ASSUME AInv, access(t)
             PROVE  AInv' /\ (~failed' /\ at'[t] = "out" => Active(ctrl'))
  OBVIOUS
<1>1. AInv'
  BY StandbyRead, StandbyWrite, ConfigRange, RateRead, RateWrite, ActiveRead, ActiveWrite DEF access
<1>2. CASE active_write(t)
  BY <1>1, <1>2, ActiveWrite
<1>3. CASE ~active_write(t)
  BY <1>1, <1>3 DEF access, standby_read, standby_write, config_range, rate_read, rate_write,
     active_read, Goto, fails, succeeds, AInv, AType
<1> QED
  BY <1>2, <1>3

-----------------------------------------------------------------------------
(* The upgrade *)

LEMMA UInitInv == UInit => UInv
<1>1. UInit => UType
  <2>1. HeapBlocks \in 0 .. HeapBlocks
    BY UpgradeAssumption
  <2> QED
    BY <2>1, Zenon DEF UInit, UType
<1>2. UInit => Chain
  BY DEF UInit, Chain
<1> QED
  BY <1>1, <1>2 DEF UInv

\* The part of eat_upgrade_app before the module restarts.
LEMMA UpgradeCall ==
  UInv /\ pending # "copy" /\ (read_file \/ flash_erase \/ flash_write)
    => UInv' /\ UNCHANGED pending
<1> SUFFICES ASSUME UInv, pending # "copy", read_file \/ flash_erase \/ flash_write
             PROVE  UInv' /\ UNCHANGED pending
  OBVIOUS
<1>1. CASE read_file
  <2>0. buffers \in 0 .. HeapBlocks
    BY DEF UInv, UType
  <2>1. buffers' \in 0 .. HeapBlocks
    <3>1. buffers' = buffers \/ eat_mem_alloc
      BY <1>1 DEF read_file
    <3> QED
      BY <2>0, <3>1, UpgradeAssumption DEF eat_mem_alloc
  <2>3. data' \in BOOLEAN
    <3>1. (buffers > 0) \in BOOLEAN
      BY <2>0
    <3> QED
      BY <1>1, <3>1, Zenon DEF read_file
  <2>2. up' = "erase" /\ UNCHANGED <<storage, run, pending, blind>>
    BY <1>1 DEF read_file, flash
  <2> QED
    BY <2>1, <2>2, <2>3 DEF UInv, UType, Chain
<1>2. CASE flash_erase
  BY <1>2 DEF flash_erase, UInv, UType, Chain
<1>3. CASE flash_write
  BY <1>3 DEF flash_write, UInv, UType, Chain
<1> QED
  BY <1>1, <1>2, <1>3

LEMMA UpgradeEnds == UInv /\ eat_update_app /\ upgrade_restart => UInv'
<1> SUFFICES ASSUME UInv, eat_update_app, upgrade_restart PROVE UInv'
  OBVIOUS
<1>1. UType'
  <2>1. HeapBlocks \in 0 .. HeapBlocks
    BY UpgradeAssumption
  <2> QED
    BY <2>1, Zenon DEF eat_update_app, upgrade_restart, UInv, UType
<1>2. up = "update" /\ storage = data /\ blind' = ~data /\ storage' = storage
  BY DEF eat_update_app, UInv, Chain
<1>3. pending' = "copy" /\ up' = "out"
  BY DEF eat_update_app, upgrade_restart
<1>4. storage' \/ blind'
  BY <1>2
<1>5. Chain'
  BY <1>3, <1>4 DEF Chain
<1> QED
  BY <1>1, <1>5 DEF UInv

LEMMA UpgradeRestart ==
  UInv /\ pending # "copy" /\ upgrade_restart /\ torn_storage /\ UNCHANGED <<run, pending, blind>>
    => UInv'
<1> SUFFICES ASSUME UInv, pending # "copy", upgrade_restart, torn_storage,
                    UNCHANGED <<run, pending, blind>>
             PROVE  UInv'
  OBVIOUS
<1>1. storage' \in BOOLEAN
  BY DEF torn_storage, UInv, UType
<1>2. UType'
  <2>1. HeapBlocks \in 0 .. HeapBlocks
    BY UpgradeAssumption
  <2> QED
    BY <1>1, <2>1, Zenon DEF upgrade_restart, UInv, UType
<1>3. Chain'
  BY DEF upgrade_restart, UInv, Chain
<1> QED
  BY <1>2, <1>3 DEF UInv

\* The flag of a failed update is never cleared, so the copy was a good one.
LEMMA CoreSteps ==
  ASSUME UInv,
         \/ copy_image \/ copy_fails \/ copy_cut
         \/ update_app_result /\ eat_update_app_ok
  PROVE  UInv'
<1>1. UType'
  <2>1. CASE copy_image
    BY <2>1, Zenon DEF copy_image, UInv, UType
  <2>2. CASE copy_cut
    BY <2>2, Zenon DEF copy_cut, UInv, UType
  <2>3. CASE eat_update_app_ok
    BY <2>3, Zenon DEF eat_update_app_ok, UInv, UType
  <2>4. CASE copy_fails
    <3>1. UType /\ run' \in BOOLEAN
      BY <2>4, Zenon DEF copy_fails, UInv, UType
    <3> QED
      BY <2>4, <3>1, Zenon DEF copy_fails, UType
  <2> QED
    BY <2>1, <2>2, <2>3, <2>4
<1>2. CASE copy_image
  <2>1. storage \/ blind
    BY <1>2 DEF copy_image, UInv, Chain
  <2>2. /\ run' = storage /\ pending' = "done"
        /\ UNCHANGED <<up, data, storage, blind>>
    BY <1>2 DEF copy_image
  <2>3. Chain'
    BY <2>1, <2>2 DEF UInv, Chain
  <2> QED
    BY <1>1, <2>3 DEF UInv
<1>3. CASE copy_cut
  <2>1. /\ pending = "copy" /\ pending' = pending
        /\ UNCHANGED <<up, data, storage, blind>>
    BY <1>3 DEF copy_cut
  <2>2. Chain'
    BY <2>1 DEF UInv, Chain
  <2> QED
    BY <1>1, <2>2 DEF UInv
<1>4. CASE update_app_result /\ eat_update_app_ok
  <2>1. pending = "done" /\ pending' = "none"
    BY <1>4 DEF eat_update_app_ok, update_app_result
  <2>2. UNCHANGED <<up, data, storage, run, blind>>
    BY <1>4 DEF eat_update_app_ok
  <2>3. Chain'
    BY <2>1, <2>2 DEF UInv, Chain
  <2> QED
    BY <1>1, <2>3 DEF UInv
<1>5. CASE copy_fails
  <2>1. pending' = "failed" /\ UNCHANGED <<up, data, storage, blind>>
    BY <1>5 DEF copy_fails
  <2>2. Chain'
    BY <2>1 DEF UInv, Chain
  <2> QED
    BY <1>1, <2>2 DEF UInv
<1> QED
  BY <1>1, <1>2, <1>3, <1>4, <1>5 DEF UInv

LEMMA SameUpgrade == UInv /\ UNCHANGED uvars => UInv'
BY DEF uvars, flash, UInv, UType, Chain

LEMMA SameAccel == AInv /\ UNCHANGED avars => AInv'
<1> SUFFICES ASSUME AInv, UNCHANGED avars PROVE AInv'
  OBVIOUS
<1>1. UNCHANGED <<at, scale, value, opened, ctrl, range, failed, stale, took>>
  BY DEF avars, registers
<1>2. AType'
  BY <1>1 DEF AInv, AType
<1>3. ASSUME NEW u \in Threads, took'[u] PROVE Undisturbed(u)'
  BY <1>1, <1>3 DEF AInv, Undisturbed, Ranged
<1>4. Clean'
  BY <1>1 DEF AInv, Clean
<1> QED
  BY <1>2, <1>3, <1>4 DEF AInv

-----------------------------------------------------------------------------
(* The whole *)

LEMMA InitInv == Init => Inv
<1> SUFFICES ASSUME Init PROVE Inv
  OBVIOUS
<1>1. AInv /\ UInv
  BY AInitInv, UInitInv DEF Init
<1>2. FType
  BY FirmwareAssumption DEF Init, FType
<1>3. Booted /\ CollisionsAwake
  BY DEF Init, Booted, Running, CollisionsAwake
<1> QED
  BY <1>1, <1>2, <1>3 DEF Inv

\* A step that leaves the accelerometer alone, but may set the timer back.
LEMMA SameAwake ==
  ASSUME CollisionsAwake, UNCHANGED avars, timer' \in {timer, "init"}
  PROVE  CollisionsAwake'
BY DEF CollisionsAwake, avars, registers

LEMMA AccessKeepsInv ==
  ASSUME Inv, Running, NEW t \in Threads, access(t), UNCHANGED <<uvars, fvars>>
  PROVE  Inv'
<1>1. AInv' /\ UInv' /\ (~failed' /\ at'[t] = "out" => Active(ctrl'))
  BY AccessKeeps, SameUpgrade DEF Inv
<1>2. FType' /\ Booted'
  BY DEF Inv, FType, Booted, Running, fvars, uvars, flash
<1>3. CollisionsAwake'
  BY <1>1 DEF CollisionsAwake
<1> QED
  BY <1>1, <1>2, <1>3 DEF Inv

LEMMA NextKeepsInv == Inv /\ [Next]_vars => Inv'
<1> SUFFICES ASSUME Inv, [Next]_vars PROVE Inv'
  OBVIOUS
<1>0. /\ Main \in Threads /\ Timer \in Threads /\ Main # Timer /\ 8 \in Scales
      /\ AInv /\ UInv /\ FType /\ Booted /\ CollisionsAwake
  BY FirmwareAssumption DEF Inv
<1>1. CASE core_copies
  <2>1. AInv' /\ UInv' /\ FType' /\ CollisionsAwake'
    BY <1>0, <1>1, SameAccel, CoreSteps, SameAwake DEF core_copies, FType, fvars
  <2>2. Booted'
    BY <1>0, <1>1 DEF core_copies, copy_image, copy_fails, Booted, Running, fvars
  <2> QED
    BY <2>1, <2>2 DEF Inv
<1>2. CASE core_starts
  <2>1. AInv' /\ UInv' /\ FType' /\ CollisionsAwake'
    BY <1>0, <1>2, SameAccel, SameUpgrade, SameAwake DEF core_starts, FType
  <2>2. Booted'
    BY <1>2 DEF core_starts, Booted, Running, uvars, flash
  <2> QED
    BY <2>1, <2>2 DEF Inv
<1>3. CASE power_fails_in_copy
  <2>1. AInv' /\ UInv'
    BY <1>0, <1>3, RestartCall, CoreSteps DEF power_fails_in_copy
  <2>2. restarts' \in 0 .. MaxRestarts
    BY <1>0, <1>3, FirmwareAssumption DEF power_fails_in_copy, FType
  <2>3. FType'
    BY <1>0, <1>3, <2>2 DEF power_fails_in_copy, FType
  <2>4. timer' = "init" /\ Booted' /\ CollisionsAwake'
    BY <1>0, <1>3 DEF power_fails_in_copy, Booted, Running, CollisionsAwake
  <2> QED
    BY <2>1, <2>3, <2>4 DEF Inv
<1>4. CASE app_main
  <2>1. (update_app_result /\ eat_update_app_ok) \/ UNCHANGED uvars
    BY <1>4 DEF app_main
  <2>2. AInv' /\ UInv' /\ FType' /\ CollisionsAwake'
    BY <1>0, <1>4, <2>1, SameAccel, SameUpgrade, CoreSteps, SameAwake DEF app_main, FType
  <2>3. pending # "copy" => pending' # "copy"
    BY <2>1 DEF eat_update_app_ok, uvars, flash
  <2>4. Booted'
    BY <1>0, <1>4, <2>3 DEF app_main, Booted, Running
  <2> QED
    BY <2>2, <2>4 DEF Inv
<1>5. ASSUME call PROVE FType' /\ (UNCHANGED pending => Booted') /\ timer' = timer /\ Running
  <2>1. calls' \in 0 .. MaxCalls
    BY <1>0, <1>5, FirmwareAssumption DEF call, FType
  <2> QED
    BY <1>0, <1>5, <2>1 DEF call, FType, Booted, Running
<1>6. CASE script_init
  <2>1. AInv' /\ UInv' /\ FType' /\ Booted'
    BY <1>0, <1>5, <1>6, InitCall, SameUpgrade DEF script_init, uvars, flash
  <2>2. CollisionsAwake'
    BY <1>0, <1>5, <1>6 DEF script_init, mma8452_init, registers, CollisionsAwake
  <2> QED
    BY <2>1, <2>2 DEF Inv
<1>7. ASSUME NEW s \in Scales, script_config(s) PROVE Inv'
  <2>1. AInv' /\ UInv' /\ FType' /\ Booted'
    BY <1>0, <1>5, <1>7, ConfigCall, SameUpgrade DEF script_config, uvars, flash
  <2>2. at'[Main] = "standby read"
    BY <1>0, <1>7 DEF script_config, mma8452_config, Goto, AInv, AType
  <2>3. CollisionsAwake'
    BY <1>0, <2>2 DEF CollisionsAwake
  <2> QED
    BY <2>1, <2>3 DEF Inv
<1>8. CASE script_upgrade
  <2>1. pending # "copy"
    BY <1>0, <1>5, <1>8 DEF script_upgrade, Booted
  <2>2. AInv' /\ UInv' /\ UNCHANGED pending
    BY <1>0, <1>8, <2>1, SameAccel, UpgradeCall DEF script_upgrade
  <2> QED
    BY <1>0, <1>5, <1>8, <2>2, SameAwake DEF script_upgrade, Inv
<1>9. CASE main_access
  BY <1>0, <1>9, AccessKeepsInv DEF main_access
<1>10. CASE upgrade_step
  <2>1. pending # "copy"
    BY <1>0, <1>10 DEF upgrade_step, Booted
  <2>2. AInv' /\ UInv' /\ UNCHANGED pending
    BY <1>0, <1>10, <2>1, SameAccel, UpgradeCall DEF upgrade_step
  <2>3. FType' /\ Booted' /\ CollisionsAwake'
    BY <1>0, <1>10, <2>2, SameAwake DEF upgrade_step, fvars, FType, Booted, Running
  <2> QED
    BY <2>2, <2>3 DEF Inv
<1>11. CASE upgrade_ends
  <2>1. AInv' /\ UInv'
    BY <1>0, <1>11, RestartCall, UpgradeEnds DEF upgrade_ends
  <2>2. FType' /\ Booted' /\ CollisionsAwake'
    BY <1>0, <1>11 DEF upgrade_ends, FType, Booted, Running, CollisionsAwake
  <2> QED
    BY <2>1, <2>2 DEF Inv
<1>12. CASE timer_init
  <2>1. AInv' /\ UInv' /\ FType' /\ Booted' /\ CollisionsAwake'
    BY <1>0, <1>12, InitCall, SameUpgrade
       DEF timer_init, uvars, flash, FType, Booted, Running, CollisionsAwake
  <2> QED
    BY <2>1 DEF Inv
<1>13. CASE timer_config
  <2>1. AInv' /\ UInv'
    BY <1>0, <1>13, ConfigCall, SameUpgrade DEF timer_config
  <2>2. FType' /\ Booted'
    BY <1>0, <1>13 DEF timer_config, uvars, flash, FType, Booted, Running
  <2>3. at'[Timer] = "standby read"
    BY <1>0, <1>13 DEF timer_config, mma8452_config, Goto, AInv, AType
  <2>4. CollisionsAwake'
    BY <1>0, <2>3 DEF CollisionsAwake
  <2> QED
    BY <2>1, <2>2, <2>4 DEF Inv
<1>14. CASE timer_access
  BY <1>0, <1>14, AccessKeepsInv DEF timer_access
<1>15. ASSUME NEW power \in BOOLEAN, restart(power) PROVE Inv'
  <2>1. pending # "copy"
    BY <1>0, <1>15 DEF restart, Booted
  <2>2. AInv' /\ UInv'
    BY <1>0, <1>15, <2>1, RestartCall, UpgradeRestart DEF restart
  <2>3. restarts' \in 0 .. MaxRestarts
    BY <1>0, <1>15, FirmwareAssumption DEF restart, FType
  <2>4. FType' /\ Booted' /\ CollisionsAwake'
    BY <1>0, <1>15, <2>3 DEF restart, FType, Booted, Running, CollisionsAwake
  <2> QED
    BY <2>2, <2>4 DEF Inv
<1>16. CASE UNCHANGED vars
  <2>1. AInv' /\ UInv' /\ FType' /\ Booted' /\ CollisionsAwake'
    BY <1>0, <1>16, SameAccel, SameUpgrade, SameAwake
       DEF vars, fvars, uvars, flash, FType, Booted, Running
  <2> QED
    BY <2>1 DEF Inv
<1> QED
  BY <1>1, <1>2, <1>3, <1>4, <1>6, <1>7, <1>8, <1>9, <1>10, <1>11, <1>12, <1>13, <1>14,
     <1>15, <1>16 DEF Next

\* The inductive invariant holds in every reachable state.
THEOREM Invariance == Spec => []Inv
BY InitInv, NextKeepsInv, PTL DEF Spec

-----------------------------------------------------------------------------
(* What follows from it *)

\* Every variable has its type.
THEOREM TypeCorrect == Spec => []TypeOK
<1>1. Inv => TypeOK
  BY TypeParts DEF Inv, AInv, UInv
<1> QED
  BY <1>1, Invariance, PTL

\* An undisturbed mma8452_config without failures leaves the chip measuring in
\* the range asked for.
THEOREM ConfigTheorem == Spec => []ConfigTakes
<1>1. Inv => ConfigTakes
  BY DEF Inv, AInv, Undisturbed, Ranged, ConfigTakes
<1> QED
  BY <1>1, Invariance, PTL

\* However the two threads collide, the chip measures when both are done.
THEOREM AwakeTheorem == Spec => []CollisionsAwake
BY Invariance, PTL DEF Inv

\* F_READ gets set by a byte that was not read from CTRL_REG1, or not at all.
THEOREM StaleTheorem == Spec => []FastReadOnlyByStale
<1>1. Inv => FastReadOnlyByStale
  BY DEF Inv, AInv, Clean, FastReadOnlyByStale
<1> QED
  BY <1>1, Invariance, PTL

\* The device boots whole applications only, unless told to install a file it
\* could not read.
THEOREM BootTheorem == Spec => []BootsWhole
<1>1. Inv => BootsWhole
  BY DEF Inv, UInv, Chain, BootsWhole
<1> QED
  BY <1>1, Invariance, PTL
=============================================================================
