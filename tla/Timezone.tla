------------------------------- MODULE Timezone ------------------------------
(***************************************************************************)
(* configure_timezone: the zone of the host and the one handed to the      *)
(* Gladys container through /opt/gladys/.env, over the runs of a first     *)
(* boot that may be cut anywhere.  "UTC" stands for every default zone.    *)
(***************************************************************************)
CONSTANT
  Zones  \* the zones "timedatectl list-timezones" knows, except UTC

ASSUME ZonesAssumption == Zones \cap {"", "UTC", "none", "unlisted"} = {}

VARIABLES
  pc,
  host,      \* the zone of the host
  chosen,    \* what the host was installed with
  env,       \* GLADYS_TZ in .env
  gladys,    \* the zone the container was created with
  timezone,  \* local: the zone as the run knows it, "" when it could not be read
  detected,  \* local: the answer of the lookup
  unread     \* history: has "timedatectl show" ever failed?

vars == <<pc, host, chosen, env, gladys, timezone, detected, unread>>

HostZones == Zones \cup {"UTC"}

TypeOK ==
  /\ pc \in {"idle", "read", "lookup", "list", "set", "write", "up", "done"}
  /\ host \in HostZones /\ chosen \in HostZones
  /\ env \in HostZones \cup {"none"} /\ gladys \in HostZones \cup {"none"}
  /\ timezone \in HostZones \cup {""}
  /\ detected \in Zones \cup {"none", "unlisted"}
  /\ unread \in {"never", "once"}

Init ==
  /\ pc = "idle"
  /\ chosen \in HostZones /\ host = chosen
  /\ env = "none" /\ gladys = "none"
  /\ timezone = "" /\ detected = "none"
  /\ unread = "never"

-----------------------------------------------------------------------------
Goto(from, to) == pc = from /\ pc' = to

Run ==
  /\ Goto("idle", "read")
  /\ UNCHANGED <<host, chosen, env, gladys, timezone, detected, unread>>

(* Mutant: the zone is looked up whatever the host has. *)
ReadHostAndLookUp ==
  /\ Goto("read", "lookup")
  /\ timezone' = host
  /\ UNCHANGED <<host, chosen, env, gladys, detected, unread>>

ReadHost ==
  /\ Goto("read", IF host = "UTC" THEN "lookup" ELSE "write")
  /\ timezone' = host
  /\ UNCHANGED <<host, chosen, env, gladys, detected, unread>>

(* _host_timezone answers "", which counts as a default zone. *)
ReadHostFails ==
  /\ Goto("read", "lookup")
  /\ timezone' = "" /\ unread' = "once"
  /\ UNCHANGED <<host, chosen, env, gladys, detected>>

(* Any name, or none: geoip_timezone does not check what it is told. *)
Lookup ==
  /\ Goto("lookup", "list")
  /\ detected' \in Zones \cup {"none", "unlisted"}
  /\ UNCHANGED <<host, chosen, env, gladys, timezone, unread>>

ListTimezones ==
  /\ Goto("list", IF detected \in Zones THEN "set" ELSE "write")
  /\ UNCHANGED <<host, chosen, env, gladys, timezone, detected, unread>>

ListTimezonesFails ==
  /\ Goto("list", "write")
  /\ UNCHANGED <<host, chosen, env, gladys, timezone, detected, unread>>

SetTimezone ==
  /\ Goto("set", "write")
  /\ host' = detected /\ timezone' = detected
  /\ UNCHANGED <<chosen, env, gladys, detected, unread>>

(* Mutant: the zone is noted before the command has succeeded. *)
SetTimezoneFailsUnnoticed ==
  /\ Goto("set", "write")
  /\ host' \in {host, detected} /\ timezone' = detected
  /\ UNCHANGED <<chosen, env, gladys, detected, unread>>

(* A failure, or a timeout of a command that took effect. *)
SetTimezoneFails ==
  /\ Goto("set", "write")
  /\ host' \in {host, detected}
  /\ UNCHANGED <<chosen, env, gladys, timezone, detected, unread>>

(* Mutant: the zone is written as it is. *)
WriteAsIs ==
  /\ Goto("write", "up")
  /\ env' = timezone
  /\ UNCHANGED <<host, chosen, gladys, timezone, detected, unread>>

(* The only zones that do not match TIMEZONE_NAME here are the default ones. *)
WriteEnv ==
  /\ Goto("write", "up")
  /\ env' = IF timezone \in Zones THEN timezone ELSE "UTC"
  /\ UNCHANGED <<host, chosen, gladys, timezone, detected, unread>>

(* "compose up" creates the container, or creates it again for a new value. *)
ComposeUp ==
  /\ Goto("up", "done")
  /\ gladys' = env
  /\ UNCHANGED <<host, chosen, env, timezone, detected, unread>>

(* The run fails, is killed or loses power before the completion marker. *)
Cut ==
  /\ pc # "idle" /\ pc' = "idle"
  /\ UNCHANGED <<host, chosen, env, gladys, timezone, detected, unread>>

Next ==
  \/ Run \/ ReadHost \/ ReadHostFails \/ Lookup
  \/ ListTimezones \/ ListTimezonesFails \/ SetTimezone \/ SetTimezoneFails
  \/ WriteEnv \/ ComposeUp \/ Cut

Spec == Init /\ [][Next]_vars

-----------------------------------------------------------------------------
(* Whatever failed in this run and in those before it, a run that has started
   Gladys leaves it in the zone of the host, or in UTC. *)
GladysFollowsHost == pc = "done" => gladys \in {host, "UTC"}

(* A zone the host was installed with is lost in no way but one: the failure or
   the timeout of "timedatectl show", in this run or an earlier one. *)
LostOnlyUnread == chosen # "UTC" /\ unread = "never" => host = chosen

(* ARCHITECTURE.md: "a zone already set on the host is kept". *)
ChosenZoneKept == chosen # "UTC" => host = chosen

(* The inductive invariant: what a run knows at each of its steps. *)
IInv ==
  /\ TypeOK
  /\ pc \in {"lookup", "list", "set"} => timezone \in {"", "UTC"}
  /\ pc \in {"lookup", "list", "set"} /\ unread = "never" => host = "UTC"
  /\ pc = "set" => detected \in Zones
  /\ pc = "write" => timezone \in {"", "UTC", host}
  /\ pc = "up" => env \in {host, "UTC"}
  /\ GladysFollowsHost
  /\ LostOnlyUnread
=============================================================================
