-------------------------- MODULE BluetoothRecovery --------------------------
(***************************************************************************)
(* palm-bluetooth-recover, the oneshot that rebinds the Bluetooth UART,    *)
(* with systemd's limit on it, beside the restarts the web helper and      *)
(* palm-lap-device make of the same two services.                          *)
(*                                                                         *)
(* A command returns at once or as late as its timeout lets it; systemctl  *)
(* is a client, so a job it no longer waits for may still be carried out.  *)
(***************************************************************************)
EXTENDS Integers

CONSTANTS
  Budget,       \* TimeoutStartSec of the unit, in seconds
  StopTimeout,  \* timeout of the stop of both services
  RunTimeout    \* timeout of every other command

ASSUME SecondsAssumption ==
  Budget \in Nat \ {0} /\ StopTimeout \in Nat \ {0} /\ RunTimeout \in Nat \ {0}

VARIABLES
  step,      \* the step of the recovery that comes next
  left,      \* seconds before systemd kills it
  raised,    \* the first step that raised, or "none"
  bound,     \* serial0-0 is bound to hci_uart_bcm
  services,  \* is bluetooth.service up, and palm-lap.service
  web,       \* where the web helper's bluetooth-restart is
  refused    \* history: systemd could not start a service since the recovery began

recoveryVars == <<step, left, raised, bound, services, web, refused>>

Commands  == {"stop", "start_bt", "power", "start_lap", "show", "except_bt", "except_lap"}
Unchecked == {"start_bt", "except_bt", "except_lap"}
Starts    == Unchecked \cup {"start_lap"}
Busy      == Commands \cup {"validate", "unbind", "bind", "poll"}
Finished  == {"ok", "failed", "abandoned", "invalid", "killed"}

BothUp   == <<TRUE, TRUE>>
BothDown == <<FALSE, FALSE>>

RecoveryInit ==
  /\ step = "idle"
  /\ left = Budget
  /\ raised = "none"
  /\ bound = TRUE
  /\ services = BothUp
  /\ web = "idle"
  /\ refused = FALSE

-----------------------------------------------------------------------------
(* Variants named ...Bug are slips at the lines of the definition that     *)
(* follows them; no specification uses them.                               *)

(* The order of the program, and of its except clause.                     *)
Program == [stop |-> "unbind", unbind |-> "bind", bind |-> "start_bt", start_bt |-> "poll",
            poll |-> "power", power |-> "start_lap", start_lap |-> "show", show |-> "ok",
            except_bt |-> "except_lap", except_lap |-> "failed"]
AfterBug(s) == IF s = "except_bt" THEN "failed" ELSE Program[s]
After(s)    == Program[s]

(* The stop is before the try, and the except clause has none of its own.  *)
Raise(s) == IF s \in {"stop", "except_bt", "except_lap"} THEN "abandoned" ELSE "except_bt"

(* The sleep before a step, and how long its command may take.             *)
Sleep(s) == CASE s = "bind" -> 2 [] s = "start_bt" -> 4 [] s = "show" -> 2 [] OTHER -> 0
LimitBug(s) == IF s = "stop" THEN Budget ELSE RunTimeout
Limit(s) ==
  IF s = "stop" THEN StopTimeout ELSE IF s \in Commands \cup {"poll"} THEN RunTimeout ELSE 0

(* What systemd makes of the job a step asks for: palm-lap.service pulls   *)
(* in bluetooth.service (Requires=).                                       *)
Job(s) == CASE s = "stop" -> BothDown
            [] s \in {"start_bt", "except_bt"} -> <<TRUE, services[2]>>
            [] s \in {"start_lap", "except_lap"} -> BothUp
            [] OTHER -> services

(* The step ends after t seconds of its own, before systemd's limit.       *)
SpendBug(t) == left' = left - Sleep(step) - t
Spend(t)    == left > Sleep(step) + t /\ left' = left - Sleep(step) - t

Raises == step' = Raise(step) /\ raised' = IF raised = "none" THEN step ELSE raised

-----------------------------------------------------------------------------
(* systemctl start --no-block; a start of a unit under way is merged.      *)
Schedule ==
  /\ step \in Finished \cup {"idle"}
  /\ step' = "validate"
  /\ left' = Budget
  /\ raised' = "none"
  /\ refused' = FALSE
  /\ UNCHANGED <<bound, services, web>>

(* The driver link is absent while the device is not bound.                *)
Validate ==
  /\ step = "validate"
  /\ step' = IF bound THEN "stop" ELSE "invalid"
  /\ UNCHANGED <<left, raised, bound, services, web, refused>>

CommandReturns ==
  /\ step \in Commands
  /\ \E t \in {0, Limit(step) - 1} : Spend(t)
  /\ \/ services' = Job(step) /\ step' = After(step) /\ UNCHANGED <<raised, refused>>
     \/ /\ refused' = (refused \/ step \in Starts)
        /\ IF step \in Unchecked THEN step' = After(step) /\ UNCHANGED raised ELSE Raises
        /\ UNCHANGED services
  /\ UNCHANGED <<bound, web>>

CommandExpires ==
  /\ step \in Commands
  /\ Spend(Limit(step))
  /\ Raises
  /\ services' \in {services, Job(step)}
  /\ UNCHANGED <<bound, web, refused>>

(* The writes to the driver's unbind and bind controls.                    *)
Control ==
  /\ step \in {"unbind", "bind"}
  /\ Spend(0)
  /\ \/ bound' = (step = "bind") /\ step' = After(step) /\ UNCHANGED raised
     \/ Raises /\ UNCHANGED bound
  /\ UNCHANGED <<services, web, refused>>

(* Ten looks for hci0, a second apart; the program goes on without it.     *)
Poll ==
  /\ step = "poll"
  /\ \E t \in {0, Limit(step)} : Spend(t)
  /\ step' = After(step)
  /\ UNCHANGED <<raised, bound, services, web, refused>>

(* systemd's limit: SIGTERM, which runs no except clause.                  *)
Kill ==
  /\ step \in Busy
  /\ Sleep(step) + Limit(step) >= left
  /\ step' = "killed"
  /\ services' \in {services, Job(step)}
  /\ UNCHANGED <<left, raised, bound, web, refused>>

(* lap-restart of the helper, or the restart of palm-lap-device.           *)
LapRestart ==
  /\ \/ services' = BothUp /\ UNCHANGED refused
     \/ services' \in {BothDown, <<TRUE, FALSE>>} /\ refused' = TRUE
  /\ UNCHANGED <<step, left, raised, bound, web>>

(* bluetooth-restart: palm-lap.service is restarted with it if it is up    *)
(* (PartOf=), the hints may fail, and only then palm-lap is started.       *)
BluetoothRestart ==
  /\ web = "idle"
  /\ \/ services' = <<TRUE, services[2]>> /\ web' = "hints" /\ UNCHANGED refused
     \/ services' = <<TRUE, FALSE>> /\ web' = "hints" /\ refused' = TRUE
     \/ services' = BothDown /\ refused' = TRUE /\ UNCHANGED web
  /\ UNCHANGED <<step, left, raised, bound>>

RestoreLapHints ==
  /\ web = "hints"
  /\ web' \in {"idle", "start"}
  /\ UNCHANGED <<step, left, raised, bound, services, refused>>

StartLap ==
  /\ web = "start"
  /\ web' = "idle"
  /\ \/ services' = BothUp /\ UNCHANGED refused
     \/ UNCHANGED services /\ refused' = TRUE
  /\ UNCHANGED <<step, left, raised, bound>>

Recovery == Validate \/ CommandReturns \/ CommandExpires \/ Control \/ Poll \/ Kill

RecoveryNext ==
  Schedule \/ Recovery \/ LapRestart \/ BluetoothRestart \/ RestoreLapHints \/ StartLap

RecoverySpec == RecoveryInit /\ [][RecoveryNext]_recoveryVars

-----------------------------------------------------------------------------
(* Type correctness; a recovery that runs has time left.                   *)
RecoveryTypeOK ==
  /\ step \in {"idle"} \cup Busy \cup Finished
  /\ left \in 1..Budget
  /\ raised \in {"none"} \cup Busy
  /\ bound \in BOOLEAN /\ refused \in BOOLEAN
  /\ services \in BOOLEAN \X BOOLEAN
  /\ web \in {"idle", "hints", "start"}

(* A recovery that ended by itself, in success or after its except clause, *)
(* leaves both services up wherever it failed and whatever restarts met it *)
(* ("best effort to leave normal services running even if recovery fails") *)
(* -- unless systemd could not start one.  A stop that expires, or a start *)
(* that expires in the except clause, ends it as "abandoned".              *)
ServicesRestored == step \in {"ok", "failed"} /\ ~refused => services = BothUp

(* Only a bind that was refused leaves the controller without its driver,  *)
(* where no later recovery gets past the validation: systemd's limit is    *)
(* never reached between the two writes.                                   *)
ControllerRebound == step \in Finished \ {"invalid"} /\ ~bound => raised = "bind"
=============================================================================
