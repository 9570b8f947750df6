---------------------------- MODULE MpuContract ----------------------------
(***************************************************************************)
(* What the inv_mpu driver promises its users about power: a chip that     *)
(* streams is awake as long as the system runs, whatever configuration     *)
(* traffic, interrupts and failed transfers go on around it; suspend may   *)
(* put it to sleep but never wakes it; a resume that reports no error      *)
(* wakes it again if it was streaming.                                     *)
(***************************************************************************)
VARIABLES
  system,     \* "running" or "suspended" (from .suspend to .resume)
  streaming,  \* the user has enabled the chip
  powered,    \* the chip is not in its sleep mode
  error       \* the last resume reported an error

contractVars == <<system, streaming, powered, error>>

ContractInit ==
  /\ system = "running" /\ ~streaming /\ ~powered /\ ~error

\* Enabling leaves the chip awake; a refused or failed enabling is Maintain.
Start ==
  /\ system = "running" /\ ~streaming
  /\ streaming' /\ powered'
  /\ UNCHANGED <<system, error>>

\* Disabling; if the last transfer fails the chip stays awake.
Stop ==
  /\ system = "running" /\ streaming
  /\ ~streaming' /\ powered' \in {FALSE, powered}
  /\ UNCHANGED <<system, error>>

\* While nothing streams, configuration may wake the chip or let it sleep.
Maintain ==
  /\ system = "running" /\ ~streaming
  /\ powered' \in BOOLEAN
  /\ UNCHANGED <<system, streaming, error>>

Suspend ==
  /\ system = "running" /\ system' = "suspended"
  /\ UNCHANGED <<streaming, powered, error>>

PowerDown ==
  /\ system = "suspended" /\ streaming
  /\ ~powered'
  /\ UNCHANGED <<system, streaming, error>>

ResumeSystem ==
  /\ system = "suspended" /\ system' = "running"
  /\ error' \in BOOLEAN
  /\ powered' \in {powered, streaming \/ powered}
  /\ (streaming /\ ~error') => powered'
  /\ UNCHANGED streaming

ContractNext == Start \/ Stop \/ Maintain \/ Suspend \/ PowerDown \/ ResumeSystem
ContractSpec == ContractInit /\ [][ContractNext]_contractVars
=============================================================================
