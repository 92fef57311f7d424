------------------------------- MODULE Config -------------------------------
(***************************************************************************)
(* backend/internal/config/config.go: what the environment of a process    *)
(* makes of its configuration.  A number or a duration (in seconds) is     *)
(* given or not, parses or not, and has a value; other settings are what   *)
(* the code asks of them: a known driver, a length, a blank or not.        *)
(***************************************************************************)
EXTENDS Integers

\* The settings durationEnv reads and Validate checks.
Defaults == [startup |-> 35, shutdown |-> 10, readHeader |-> 5, read |-> 15,
             write |-> 20, idle |-> 60]

Setting == [given : BOOLEAN, parses : BOOLEAN, value : Int]

\* The environment: `driver' and `secret' are "" and 0 when blank or not set.
Environment ==
  [driver : STRING, secret : Nat, redis : BOOLEAN, limit : Setting,
   durations : [DOMAIN Defaults -> Setting]]

\* intEnv and durationEnv: what does not parse, or is not positive, is passed
\* over in silence.
Number(setting, fallback) ==
  IF setting.given /\ setting.parses /\ setting.value > 0 THEN setting.value ELSE fallback

\* Load, before it validates; the default secret has 26 characters.
Settings(environ) ==
  [driver    |-> IF environ.driver = "" THEN "postgres" ELSE environ.driver,
   secret    |-> IF environ.secret = 0 THEN 26 ELSE environ.secret,
   redis     |-> environ.redis,
   limit     |-> Number(environ.limit, 180),
   durations |-> [d \in DOMAIN Defaults |-> Number(environ.durations[d], Defaults[d])]]

\* Validate.  APP_NAME and PORT have defaults, so that they are never blank.
Valid(cfg) ==
  /\ cfg.driver \in {"postgres", "mysql", "sqlite"}
  /\ cfg.secret >= 16
  /\ cfg.limit >= 10 /\ cfg.limit <= 100000
  /\ \A d \in DOMAIN cfg.durations : cfg.durations[d] > 0
=============================================================================
