---------------------------- MODULE ControlCenter ----------------------------
(***************************************************************************)
(* What the operators of the control center work with: the registry of     *)
(* devices, the console in their browser and their sessions.  The three    *)
(* share one server process and nothing of its state that is modelled, so  *)
(* a behaviour studies one of them, while the others rest.                 *)
(***************************************************************************)
EXTENDS DeviceRegistry, Console, Sessions

controlVars == <<vars, consoleVars, sessionVars>>

Registry == focus.on # {}
Browser  == study.kinds # {}

ControlInit ==
  /\ Init /\ ConsoleInit /\ SessionsInit
  /\ ~(Registry /\ Browser)

ControlNext ==
  \/ Registry /\ Next /\ UNCHANGED <<consoleVars, sessionVars>>
  \/ Browser /\ ConsoleNext /\ UNCHANGED <<vars, sessionVars>>
  \/ ~Registry /\ ~Browser /\ SessionsNext /\ UNCHANGED <<vars, consoleVars>>

ControlSpec ==
  ControlInit /\ [][ControlNext]_controlVars /\ WF_vars(StatusCheck) /\ ConsoleFairness
=============================================================================
