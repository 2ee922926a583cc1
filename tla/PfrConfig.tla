----------------------------- MODULE PfrConfig -----------------------------
(***************************************************************************)
(* load_configuration_file (pfrd.cpp): the lines of the file go into the   *)
(* global configuration_map, which is never cleared, and the settings are  *)
(* taken from the map.                                                     *)
(*                                                                         *)
(* There is one key here for each way a value is converted: pid_path is    *)
(* copied, enable_advertise is on for "on" and off for anything else,      *)
(* path_metric keeps its value unless the new one is known, deep_delete    *)
(* goes through atoi, which makes 0 of anything else.                      *)
(***************************************************************************)

Key == {"pid_path", "enable_advertise", "path_metric", "deep_delete"}
Absent == "absent"

\* The values of the globals before the first load.
Default == [pid_path |-> "", enable_advertise |-> "on", path_metric |-> "metric0",
            deep_delete |-> "3"]
NoKeys == [k \in Key |-> Absent]

Metrics == {"metric0", "metric1", "metric2", "metric3", "metric4", "metric5"}
Digits == {"0", "1", "2", "3"}

\* Mutant: a key keeps the first value the map has seen.
ParsedOnce(cmap, file) ==
    [k \in Key |-> IF cmap[k] = Absent THEN file[k] ELSE cmap[k]]

\* configuration_map after the lines of file.
Parsed(cmap, file) ==
    [k \in Key |-> IF file[k] = Absent THEN cmap[k] ELSE file[k]]

Converted(k, raw, old) ==
    CASE k = "pid_path" -> raw
      [] k = "enable_advertise" -> IF raw = "on" THEN "on" ELSE "off"
      [] k = "path_metric" -> IF raw \in Metrics THEN raw ELSE old
      [] k = "deep_delete" -> IF raw \in Digits THEN raw ELSE "0"

\* The settings after they are taken from the map.
Settings(conf, cmap) ==
    [k \in Key |-> IF cmap[k] = Absent THEN conf[k] ELSE Converted(k, cmap[k], conf[k])]
=============================================================================
