----------------------------- MODULE NvRegister -----------------------------
(***************************************************************************)
(* What a calibration file promises: what is kept is what was in use when  *)
(* it was stored, and a start finds a part of what is kept and uses it.    *)
(* Losing it is allowed at any time, since the file is rewritten in place; *)
(* a start that finds a torn value or parts of two stores is not.          *)
(***************************************************************************)
VARIABLES current,       \* the set of values in use
          kept,          \* the set of values non-volatile memory holds
          found          \* those the last start found

NvInit == kept = {} /\ found = {}
Use == UNCHANGED <<kept, found>>
Keep == kept' = current /\ UNCHANGED <<current, found>>
Lose == kept' = {} /\ UNCHANGED <<current, found>>
Find == /\ found' \subseteq kept /\ found' \subseteq current'
        /\ UNCHANGED kept
Stop == /\ current' = {} /\ found' = {} /\ kept' \in {kept, {}}

NvNext == Use \/ Keep \/ Lose \/ Find \/ Stop
NvSpec == NvInit /\ [][NvNext]_<<current, kept, found>>
=============================================================================
