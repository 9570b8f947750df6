------------------------------ MODULE MCMllite ------------------------------
(***************************************************************************)
(* mllite for TLC.  Its parts share little state, so each behaviour works  *)
(* on one of them: part, chosen at the start, says which groups of actions *)
(* run and which sensors deliver samples.                                  *)
(***************************************************************************)
EXTENDS CalStore

CONSTANT Parts           \* the parts that work

VARIABLE part
allVars == <<tableVars, builderVars, storeVars, part>>

MCRates == {2, 5, 1200}
MCBiases == {0, 1}
MCRaws == {4}
MCPriority == [f \in DataFuncs |-> CASE f = "fast" -> 10 [] f = "nine" -> 20
                                     [] f = "results" -> 30 [] f = "hal" -> 40]
MCRequired == [f \in DataFuncs |-> IF f = "hal" THEN Sensors \ {"temp"} ELSE Triads]

(* The sensors each part uses; all but "compass" stay at the first time
   stamp, and only "results" sets factory biases. *)
Uses == [tables |-> {}, store |-> {}, compass |-> {"compass"},
         nine |-> {"gyro", "accel", "compass", "quat"}, others |-> {"quat", "temp", "pressure"},
         rates |-> {"gyro", "accel", "compass", "quat"},
         gyro |-> {"gyro"}, accel |-> {"accel"}, field |-> {"compass"}, results |-> {}]
OnlyUsed == /\ \A s \in Sensors \ Uses[part] :
                  status'[s] = status[s] /\ stamp'[s] = stamp[s] /\ rate'[s] = rate[s]
            /\ \A s \in Triads \ Uses[part] : accuracy'[s] = accuracy[s] /\ BiasOf(s)' = BiasOf(s)
            /\ part # "compass" => \A s \in Sensors : stamp'[s] <= 1
            /\ part # "field" => softIron' = FALSE
            /\ part = "field" => rate' = rate /\ disturbed' = FALSE
            /\ part = "nine" => disturbed' = FALSE /\ \A s \in Sensors : rate'[s] # 5 /\ prev'[s] = 0
            /\ part # "results" => save'.factoryGyro = 0 /\ save'.factoryAccel = 0

(* What the store learns: a gyro bias, and with it the flag in another box. *)
FewBiases == /\ save' = [save EXCEPT !.gyroBias = save'.gyroBias, !.tcSet = save'.tcSet]
             /\ messages' \subseteq {"NEW_GB"}
MCVersions == LET sized(n) == [k \in Keys |-> IF k = "mpl" THEN n ELSE 1] IN {sized(1), sized(2)}

(* The data path runs in a started library; the last sensors on are those of
   the nine-axis outputs. *)
Started == startCbs = <<"results", "hal">> /\ dataCbs = <<"results", "hal">> /\ result = "SUCCESS"
MCInit ==
    /\ part \in Parts
    /\ BuilderInit /\ StoreInit
    /\ IF part \in {"tables", "store"} THEN TablesInit ELSE Started

MCNext ==
    /\ \/ part = "store" /\ StoreNext /\ FewBiases
       \/ /\ \/ part = "tables" /\ Tables
             \/ /\ part \in {"compass", "nine", "others", "gyro", "accel", "field"}
                /\ Sample \/ TurnOff \/ (part \notin {"field", "nine"} /\ Run)
                /\ OnlyUsed
             \/ part \in {"rates", "compass", "nine", "field"} /\ Configure /\ OnlyUsed
             \/ part \in {"gyro", "accel", "field", "results"} /\ Calibrate /\ OnlyUsed
             \/ part = "results" /\ Results
          /\ UNCHANGED storeVars
    /\ UNCHANGED part
MCSpec == MCInit /\ [][MCNext]_allVars
=============================================================================
