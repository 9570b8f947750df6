----------------------------- MODULE MplTables -----------------------------
(***************************************************************************)
(* The callback tables of mllite: the functions run when the library is    *)
(* started (start_manager.c) and, in the order of their priorities, the    *)
(* functions run on new sensor data (data_builder.c), with the two modules *)
(* of mllite that use both, the results holder and the HAL outputs.        *)
(***************************************************************************)
EXTENDS Naturals, Sequences, FiniteSets, SequencesExt

CONSTANTS Features,      \* data callbacks of the closed library's modules
          Priority,      \* the priority each data callback registers with
          Required,      \* the sensors whose new data each data callback wants
          MaxDataCb,     \* INV_MAX_DATA_CB
          MaxStartCb     \* INV_MAX_START_CB

DataFuncs == Features \cup {"results", "hal"}
ASSUME TablesAssumption ==
    /\ Features \cap {"results", "hal"} = {}
    /\ Priority \in [DataFuncs -> Nat]
    /\ MaxDataCb \in Nat \ {0} /\ MaxStartCb \in Nat \ {0}

VARIABLES startCbs,      \* start callbacks, named by the data callback they register
          dataCbs,       \* inv_data_builder.process, by rising priority
          result         \* what the last call returned
tableVars == <<startCbs, dataCbs, result>>

Errors == {"SUCCESS", "INVALID_PARAMETER", "MEMORY_EXAUSTED"}
FirstError(r, s) == IF r = "SUCCESS" THEN s ELSE r

RegisteredLast(cbs, f) ==
    IF f \in ToSet(cbs) THEN [cbs |-> cbs, err |-> "INVALID_PARAMETER"]
    ELSE IF Len(cbs) >= MaxDataCb THEN [cbs |-> cbs, err |-> "MEMORY_EXAUSTED"]
    ELSE [cbs |-> Append(cbs, f), err |-> "SUCCESS"]
RegisteredQuietly(cbs, f) ==
    [cbs |-> IF Len(cbs) >= MaxDataCb \/ f \in ToSet(cbs) THEN cbs ELSE RegisteredLast(cbs, f).cbs,
     err |-> "SUCCESS"]
(* The entries before f's place: it goes in front of the first one whose
   priority is not below its own. *)
PlaceOf(cbs, f) ==
    CHOOSE k \in 0..Len(cbs) :
        /\ \A i \in 1..k : Priority[cbs[i]] < Priority[f]
        /\ k = Len(cbs) \/ Priority[cbs[k + 1]] >= Priority[f]
(* inv_register_data_cb: the table and the error of registering f.  A
   function or a priority already there is refused, then a full table. *)
Registered(cbs, f) ==
    LET kk == PlaceOf(cbs, f)
    IN  IF \E i \in DOMAIN cbs : cbs[i] = f \/ Priority[cbs[i]] = Priority[f]
          THEN [cbs |-> cbs, err |-> "INVALID_PARAMETER"]
        ELSE IF Len(cbs) >= MaxDataCb THEN [cbs |-> cbs, err |-> "MEMORY_EXAUSTED"]
        ELSE [cbs |-> InsertAt(cbs, kk + 1, f), err |-> "SUCCESS"]
(* inv_unregister_data_cb: the first of equal entries goes, the others move
   up; a function that is not there is no error. *)
Unregistered(cbs, f) ==
    IF f \in ToSet(cbs) THEN RemoveFirst(cbs, f) ELSE cbs

(* inv_register_mpl_start_notification, inv_unregister_...: no check for
   duplicates; the first of equal entries is removed. *)
StartRegistered(cbs, f) ==
    IF Len(cbs) >= MaxStartCb THEN [cbs |-> cbs, err |-> "INVALID_PARAMETER"]
    ELSE [cbs |-> Append(cbs, f), err |-> "SUCCESS"]
StartUnregistered(cbs, f) ==
    IF f \in ToSet(cbs) THEN [cbs |-> RemoveFirst(cbs, f), err |-> "SUCCESS"]
    ELSE [cbs |-> cbs, err |-> "INVALID_PARAMETER"]

(* What a start callback returns: the results holder's drops the error of
   its registration, the HAL outputs' and the features' return it. *)
Reported(f, err) == IF f = "results" THEN "SUCCESS" ELSE err

(* inv_execute_mpl_start_notification: every start callback runs, in order,
   and the first error is returned. *)
OneStarted(acc, f) ==
    LET r == Registered(acc.cbs, f)
    IN  [cbs |-> r.cbs, err |-> FirstError(acc.err, Reported(f, r.err))]
StartAll(cbs) ==
    LET after[kk \in 0..Len(startCbs)] ==
            IF kk = 0 THEN [cbs |-> cbs, err |-> "SUCCESS"]
            ELSE OneStarted(after[kk - 1], startCbs[kk])
    IN  after[Len(startCbs)]

(* inv_init_mpl: empty tables, then the results holder enabled. *)
TablesInit == startCbs = <<"results">> /\ dataCbs = <<>> /\ result = "SUCCESS"

StartMpl == LET r == StartAll(dataCbs)
            IN  dataCbs' = r.cbs /\ result' = r.err /\ UNCHANGED startCbs
(* A feature's inv_enable_... and inv_disable_...; the HAL enables the HAL
   outputs once and a feature is enabled at most once. *)
Enable(f) == /\ f \notin ToSet(startCbs)
             /\ LET r == StartRegistered(startCbs, f)
                IN  startCbs' = r.cbs /\ result' = r.err
             /\ UNCHANGED dataCbs
(* inv_disable_hal_outputs: stops, ignoring errors, then unregisters. *)
Disable(f) == /\ dataCbs' = Unregistered(dataCbs, f)
              /\ LET r == StartUnregistered(startCbs, f)
                 IN  startCbs' = r.cbs /\ result' = r.err
(* inv_start_hal_outputs, inv_stop_hal_outputs *)
StartOne(f) == LET r == Registered(dataCbs, f)
               IN  dataCbs' = r.cbs /\ result' = r.err /\ UNCHANGED startCbs
StopOne(f) == dataCbs' = Unregistered(dataCbs, f) /\ result' = "SUCCESS" /\ UNCHANGED startCbs

TablesNext == StartMpl \/ \E f \in DataFuncs \ {"results"} :
                              Enable(f) \/ Disable(f) \/ StartOne(f) \/ StopOne(f)
TablesSpec == TablesInit /\ [][TablesNext]_tableVars
-----------------------------------------------------------------------------
(* The data callbacks run in the order of their priorities, whatever the
   order they were registered, stopped and registered again in, and none
   runs twice on the same data (inv_register_data_cb's insertion). *)
RunsInPriorityOrder ==
    \A i, j \in DOMAIN dataCbs : i < j => Priority[dataCbs[i]] < Priority[dataCbs[j]]

(* A start that reports success leaves every enabled module with a place,
   except the results holder, which drops its error
   (inv_execute_mpl_start_notification). *)
SuccessfulStartIsComplete ==
    StartMpl /\ result' = "SUCCESS" => ToSet(startCbs) \ {"results"} \subseteq ToSet(dataCbs')

(* The table of data callbacks: in order after every step, and complete after
   a start that reports success. *)
CallbacksInPlace == [][RunsInPriorityOrder' /\ SuccessfulStartIsComplete]_tableVars
=============================================================================
