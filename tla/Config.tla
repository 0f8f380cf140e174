------------------------------- MODULE Config -------------------------------
(***************************************************************************)
(* Whether the daemon finds a configuration it starts with                 *)
(* (core/config.py): the files are applied one over the other, then the    *)
(* environment, into which .env was loaded first, and any of them may be   *)
(* refused.  The value a key gets is data and left out.                    *)
(*                                                                         *)
(* An input in is about one key:                                           *)
(*   in.key        the key                                                 *)
(*   in.explicit   CRISP_CONFIG names a file                               *)
(*   in.file[f]    what file f says of the key: "absent", "good" or "bad"  *)
(*                 (a value that is refused)                               *)
(*   in.traced[f]  file f has a [trace] table                              *)
(*   in.env[e]     what .env, or the system environment, says of the key   *)
(***************************************************************************)
FileLayers == {"user", "project", "explicit"}
EnvLayers == {"dotenv", "system"}

(* Keys whose variable is parsed and may be refused, and other keys: their  *)
(* variable takes any text, or there is none.                               *)
EnvChecked == {"port", "max_steps", "timeout_s", "auto_threshold",
               "tool_result_limit", "tool_result_keep"}
Keys == EnvChecked \cup {"host", "logging", "default_model", "router", "servers",
                         "trace.enabled", "trace.file", "tokens_enabled"}

(* The tables [tui] and [permission] look at the [trace] table of the same  *)
(* file: without one the name is unbound, and the daemon ends with that     *)
(* exception.                                                               *)
NeedsTrace == {"tokens_enabled", "timeout_s"}

(* The files that are read.                                                 *)
Paths(in) == IF in.explicit THEN {"explicit"} ELSE {"user", "project"}

TomlApplies(in, f) ==
  /\ in.file[f] # "bad"
  /\ in.file[f] = "good" /\ in.key \in NeedsTrace => in.traced[f]

(* load_dotenv does not replace what the system has set.                    *)
Variable(in) ==
  IF in.env["system"] # "absent" THEN in.env["system"] ELSE in.env["dotenv"]

EnvApplies(in) == in.key \in EnvChecked => Variable(in) # "bad"

GetConfig(in) == EnvApplies(in) /\ \A f \in Paths(in) : TomlApplies(in, f)

(* What may be found at the start.                                          *)
Says == {"absent", "good", "bad"}
Inputs ==
  [key : Keys, explicit : BOOLEAN, file : [FileLayers -> Says],
   traced : [FileLayers -> BOOLEAN], env : [EnvLayers -> Says]]
=============================================================================
