-------------------------------- MODULE MCCli --------------------------------
EXTENDS Cli, TLC

CONSTANTS p1, p2

TwoProcesses == {p1, p2}

Scenario(first, second, before, at, count) ==
  [commands |-> p1 :> first @@ p2 :> second, before |-> before, at |-> at, moves |-> count]

Anywhere == [Hosts -> Cameras \cup {None}]
AtHome   == {[h \in Hosts |-> IF h = "h1" THEN "custom" ELSE None]}

(* A profile is saved while another process writes the same path or reads   *)
(* it; recordings compete for a path.                                       *)
MCScenarios ==
  {Scenario("discover", "qr", {Absent, Original, Symlink}, AtHome, 0),
   Scenario("discover", "raw", {Absent}, Anywhere, 1),
   Scenario("raw", "none", {Absent, Original}, Anywhere, 1),
   Scenario("wait", "none", {Absent}, Anywhere, 1),
   Scenario("record", "snapshot", {Absent}, AtHome, 0),
   Scenario("decode", "none", {Absent}, AtHome, 0),
   Scenario("talk", "none", {Absent}, AtHome, 0),
   Scenario("play", "none", {Absent}, AtHome, 0),
   Scenario("probe", "playFor", {Absent}, AtHome, 0)}

RawScenarios == {Scenario("raw", "none", {Original}, AtHome, 0)}

(* Right, without the seed it needs, and of a camera elsewhere.             *)
MCUserProfiles ==
  {[host |-> "h1", id |-> "known", psk |-> None],
   [host |-> "h2", id |-> "custom", psk |-> None],
   [host |-> "h2", id |-> "known", psk |-> "own"]}

(* A camera whose seed the table knows and that answers in the clear too,   *)
(* and one with a seed of its own.                                          *)
MCPskForDeviceId == [known |-> "table", custom |-> None]
MCSeedOf == [known |-> "table", custom |-> "own"]
MCInTheClear == {"known"}

MCLookups ==
  {[host |-> None, device |-> None, psk |-> None],
   [host |-> None, device |-> "known", psk |-> None],
   [host |-> None, device |-> None, psk |-> "own"],
   [host |-> "h1", device |-> "custom", psk |-> "own"]}

(* Commands of the catalog.                                                 *)
Command(name, endpoint, fixed, open, access, risk, status, retry, raw, recovery) ==
  [name |-> name, endpoint |-> endpoint, fixed |-> fixed, open |-> open,
   optional |-> {}, read_or_write |-> access, risk_level |-> risk,
   confirmation_status |-> status, retry_policy |-> retry,
   raw_accessible |-> raw, recovery_required |-> recovery]

MCCatalog ==
  {[Command("status", "get_status", <<>>, {}, "read", "read_only", "confirmed",
            "retryable", TRUE, FALSE) EXCEPT !.optional = {"vuid"}],
   Command("login_status", "get_status", <<>>, {"name"}, "read", "read_only",
           "confirmed", "retryable", FALSE, FALSE),
   Command("siren_on", "trans_cmd", [command |-> 0, siren |-> 1], {}, "write",
           "safe_write", "confirmed", "one_shot", TRUE, FALSE),
   Command("actuator_status", "trans_cmd", [command |-> 2], {}, "read", "read_only",
           "confirmed", "retryable", TRUE, FALSE),
   Command("alarm_led_set", "trans_cmd", [command |-> 0], {"alarmLed"}, "write",
           "safe_write", "observed_unconfirmed", "one_shot", TRUE, FALSE),
   Command("ptz_up_start", "decoder_control", [command |-> 0], {}, "write",
           "risky_write", "hypothesis", "one_shot", FALSE, FALSE),
   Command("ptz_up_stop", "decoder_control", [command |-> 1], {}, "write",
           "safe_write", "hypothesis", "one_shot", TRUE, FALSE),
   Command("onvif_set", "set_onvif", <<>>, {"onvifenable"}, "write", "risky_write",
           "hypothesis", "one_shot", TRUE, FALSE),
   Command("account", "set_users", [realtime |-> 1], {"ExUser"}, "write",
           "risky_write", "observed_unconfirmed", "one_shot", FALSE, TRUE),
   Command("third", "set_users", [realtime |-> 1], {"user3"}, "write", "risky_write",
           "dangerous_do_not_run", "retryable", TRUE, FALSE)}

Path(endpoint, fields) ==
  [endpoint |-> endpoint, fields |-> fields, duplicated |-> FALSE]

MCRawPaths ==
  {Path("get_status", <<>>), Path("get_status", [vuid |-> 0]),
   Path("get_status", [name |-> 0]), Path("get_status", [name |-> 0, vuid |-> 0]),
   [Path("get_status", <<>>) EXCEPT !.duplicated = TRUE],
   Path("trans_cmd", [command |-> 0, siren |-> 1]),
   Path("trans_cmd", [command |-> 0, siren |-> 1, alarmLed |-> 1]),
   Path("trans_cmd", [command |-> 2]), Path("trans_cmd", [command |-> 3]),
   Path("decoder_control", [command |-> 0]),
   Path("decoder_control", [command |-> 0, onestep |-> 1]),
   Path("decoder_control", [command |-> 1]),
   Path("set_onvif", <<>>), Path("set_onvif", [onvifenable |-> 1]),
   Path("set_users", [realtime |-> 1, ExUser |-> 1]),
   Path("set_users", [realtime |-> 1, user3 |-> 1, ExUser |-> 1]),
   Path("set_users", [ExUser |-> 1]), Path("other", <<>>)}

MCRawFlags == {{}, {"experimental", "confirm"}}
=============================================================================
