------------------------------ MODULE Firmware ------------------------------
(***************************************************************************)
(* The program's two threads and its restarts.  The main thread boots and  *)
(* then does what scripts ask for, here the accelerometer's bindings and   *)
(* the upgrade; the timer thread sets the accelerometer up at every boot.  *)
(* Composes Accel and Upgrade.                                             *)
(*                                                                         *)
(* A restart may come at any point: an uncaught error of a script resets   *)
(* the module (my_fatal), and power may fail.  The chip and the flash go   *)
(* on from where it left them.  The timer thread's other duties wait for   *)
(* timers it never starts.                                                 *)
(***************************************************************************)
EXTENDS Accel, Upgrade

CONSTANTS
  Main, Timer,
  MaxCalls,     \* bound: calls of scripts, all boots together
  MaxRestarts   \* bound: restarts that are not part of an upgrade

ASSUME FirmwareAssumption ==
  /\ Main # Timer /\ Threads = {Main, Timer}
  /\ 8 \in Scales
  /\ MaxCalls \in Nat /\ MaxRestarts \in Nat

VARIABLES
  main,         \* "core": the application does not run; "boot", "loop"
  timer,        \* app_timer_thread: before mma8452_init, before
                \* mma8452_config, after its call
  calls, restarts

fvars == <<main, timer, calls, restarts>>
vars == <<avars, uvars, fvars>>

Init ==
  /\ AInit /\ UInit
  /\ main = "core" /\ timer = "init"
  /\ calls = 0 /\ restarts = 0

Running == main # "core"

-----------------------------------------------------------------------------
(* External: the core *)

core_copies ==
  /\ ~Running
  /\ copy_image \/ copy_fails
  /\ UNCHANGED <<avars, fvars>>

core_starts ==
  /\ ~Running
  /\ pending # "copy" /\ run
  /\ main' = "boot"
  /\ UNCHANGED <<avars, uvars, timer, calls, restarts>>

power_fails_in_copy ==
  /\ ~Running
  /\ restarts < MaxRestarts
  /\ restarts' = restarts + 1
  /\ copy_cut
  /\ accel_restart(TRUE)
  /\ UNCHANGED <<main, timer, calls>>

-----------------------------------------------------------------------------
(* app_main *)

app_main_silent ==      \* a mutant: no eat_update_app_ok
  /\ main = "boot"
  /\ main' = "loop"
  /\ UNCHANGED <<uvars, avars, timer, calls, restarts>>

app_main ==
  /\ main = "boot"
  /\ main' = "loop"
  /\ IF is_update_app /\ update_app_result THEN eat_update_app_ok ELSE UNCHANGED uvars
  /\ UNCHANGED <<avars, timer, calls, restarts>>

\* A script runs when the main thread is in its loop and not in a call.
call ==
  /\ main = "loop" /\ at[Main] = "out" /\ up = "out"
  /\ calls < MaxCalls
  /\ calls' = calls + 1
  /\ UNCHANGED <<main, timer, restarts>>

script_init == call /\ mma8452_init(Main) /\ UNCHANGED uvars

script_config(s) == call /\ mma8452_config(Main, s) /\ UNCHANGED uvars

script_upgrade == call /\ read_file /\ UNCHANGED avars

main_access == Running /\ access(Main) /\ UNCHANGED <<uvars, fvars>>

upgrade_step ==
  /\ Running
  /\ flash_erase \/ flash_write
  /\ UNCHANGED <<avars, fvars>>

upgrade_ends ==
  /\ Running
  /\ eat_update_app
  /\ upgrade_restart /\ accel_restart(FALSE)
  /\ main' = "core" /\ timer' = "init"
  /\ UNCHANGED <<calls, restarts>>

-----------------------------------------------------------------------------
(* app_timer_thread *)

timer_init ==
  /\ Running /\ timer = "init"
  /\ mma8452_init(Timer)
  /\ timer' = "config"
  /\ UNCHANGED <<uvars, main, calls, restarts>>

timer_config ==
  /\ Running /\ timer = "config"
  /\ mma8452_config(Timer, 8)
  /\ timer' = "loop"
  /\ UNCHANGED <<uvars, main, calls, restarts>>

timer_access == Running /\ access(Timer) /\ UNCHANGED <<uvars, fvars>>

-----------------------------------------------------------------------------
restart(power) ==
  /\ Running
  /\ restarts < MaxRestarts
  /\ restarts' = restarts + 1
  /\ main' = "core" /\ timer' = "init"
  /\ accel_restart(power)
  /\ upgrade_restart /\ torn_storage
  /\ UNCHANGED <<run, pending, blind, calls>>

Next ==
  \/ core_copies \/ core_starts \/ power_fails_in_copy
  \/ app_main
  \/ script_init \/ (\E s \in Scales : script_config(s)) \/ script_upgrade
  \/ main_access \/ upgrade_step \/ upgrade_ends
  \/ timer_init \/ timer_config \/ timer_access
  \/ \E power \in BOOLEAN : restart(power)

Spec == Init /\ [][Next]_vars

\* The core does its part, and every call of the vendor's returns.
Fairness ==
  /\ WF_vars(core_copies) /\ WF_vars(core_starts)
  /\ WF_vars(app_main) /\ WF_vars(main_access)
  /\ WF_vars(timer_init) /\ WF_vars(timer_config) /\ WF_vars(timer_access)

FairSpec == Spec /\ Fairness

-----------------------------------------------------------------------------
(* Properties *)

\* Every variable has its type.
TypeOK ==
  /\ at \in [Threads -> Location]
  /\ scale \in [Threads -> Scales]
  /\ value \in [Threads -> 0 .. 3]
  /\ opened \in BOOLEAN
  /\ ctrl \in 0 .. 3 /\ range \in 0 .. 2
  /\ failed \in BOOLEAN /\ stale \in BOOLEAN
  /\ took \in [Threads -> BOOLEAN]
  /\ up \in {"out", "erase", "write", "update"}
  /\ data \in BOOLEAN /\ buffers \in 0 .. HeapBlocks
  /\ storage \in BOOLEAN /\ run \in BOOLEAN
  /\ pending \in {"none", "copy", "done", "failed"} /\ blind \in BOOLEAN
  /\ main \in {"core", "boot", "loop"} /\ timer \in {"init", "config", "loop"}
  /\ calls \in 0 .. MaxCalls /\ restarts \in 0 .. MaxRestarts

\* When mma8452_config has returned and nobody disturbed it, the chip measures
\* in the range that was asked for, whatever state an earlier restart or a
\* collision of the two threads left the registers in.
ConfigTakes ==
  \A t \in Threads :
    took[t] /\ at[t] = "out" => range = scale[t] \div 4 /\ Active(ctrl)

\* Collisions of the two threads, unlike failures, cannot put the chip to
\* sleep: once both are out of the driver it measures, in some range.
CollisionsAwake ==
  ~failed /\ timer = "loop" /\ (\A t \in Threads : at[t] = "out") => Active(ctrl)

\* The bit that shortens samples to eight bits, and that nothing ever clears,
\* gets into CTRL_REG1 in one way only: from a byte that was not read there.
FastReadOnlyByStale ==
  FastRead(ctrl) => stale

\* The device never boots anything but a whole application, however often
\* erasing, writing or power fails, unless it was told to install a file it had
\* not read as a whole, or the core has given up a copy half-way.
BootsWhole == run \/ pending \in {"copy", "failed"} \/ blind

Dead == ~Running /\ ~run /\ pending # "copy"

\* Unless an access fails, the chip measures again after every restart, also
\* one that cut a configuration short while the chip was in standby.
MeasuresAgain == []<>(failed \/ Active(ctrl) \/ Dead)

\* An upgrade that was begun is copied and confirmed, whatever interrupts it,
\* unless the core reports that it failed; such a one app_main leaves unconfirmed.
Confirmed == pending = "copy" ~> pending \in {"none", "failed"} \/ Dead
=============================================================================
