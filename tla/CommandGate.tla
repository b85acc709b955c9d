----------------------------- MODULE CommandGate -----------------------------
(***************************************************************************)
(* What may be sent as a raw CGI path: the command a path is taken for     *)
(* (CommandCatalog.match_path), the permission it then needs, and whether  *)
(* its request may be repeated (send_raw_cgi and _send_raw_path of         *)
(* camera.py).                                                             *)
(*                                                                         *)
(* A path is its endpoint and its query fields.  A command of the catalog  *)
(* has fields with a fixed value, open fields whose value is a             *)
(* placeholder, and optional ones, whose placeholder ends in "?".          *)
(***************************************************************************)
EXTENDS Naturals, FiniteSets

CONSTANT Catalog   (* the commands of data/catalog.yaml                    *)

Statuses == {"confirmed", "observed_unconfirmed", "hypothesis", "failed",
             "dangerous_do_not_run"}
Risks    == {"read_only", "safe_write", "risky_write", "destructive", "unknown"}

(* What _validate_item and the constructor of the catalog demand.           *)
ASSUME CatalogAssumption ==
  \A c \in Catalog :
    /\ c.read_or_write \in {"read", "write"}
    /\ c.risk_level \in Risks
    /\ c.confirmation_status \in Statuses
    /\ c.retry_policy \in {"retryable", "one_shot"}
    /\ c.risk_level = "unknown" => c.retry_policy = "one_shot"
    /\ c.recovery_required \in BOOLEAN /\ c.raw_accessible \in BOOLEAN
    /\ \A d \in Catalog : d.name = c.name => d = c

Required(c) == DOMAIN c.fixed \cup c.open
Template(c) == Required(c) \cup c.optional

(* Open to send_raw_cgi at all.                                             *)
OpenToRaw(c) ==
  /\ c.raw_accessible
  /\ ~(c.read_or_write = "write" /\ c.open \cup c.optional # {})

(* A write for which raw is not the way.                                    *)
Protected(c) ==
  /\ c.read_or_write = "write"
  /\ \/ ~OpenToRaw(c) \/ c.recovery_required
     \/ c.confirmation_status = "dangerous_do_not_run"

(* What data/catalog.yaml keeps to: no other command takes all that a       *)
(* protected write requires, and one with optional fields has a fixed field *)
(* or is the only write of its endpoint.                                    *)
ASSUME SeparateAssumption ==
  \A c, d \in Catalog : c # d /\ c.endpoint = d.endpoint /\ Protected(c) =>
    /\ Required(c) \subseteq Template(d) =>
         \E k \in DOMAIN c.fixed \cap DOMAIN d.fixed : c.fixed[k] # d.fixed[k]
    /\ d.read_or_write = "write" /\ c.optional # {} => DOMAIN c.fixed # {}

(* A path as far as the catalog looks at it; duplicated tells that a field  *)
(* occurs twice.                                                            *)
At(path)   == {c \in Catalog : c.endpoint = path.endpoint}
Given(path) == DOMAIN path.fields

FixedMatches(c, path) ==
  \A k \in DOMAIN c.fixed : k \in Given(path) /\ path.fields[k] = c.fixed[k]

Contradicts(c, path) ==
  \E k \in DOMAIN c.fixed \cap Given(path) : path.fields[k] # c.fixed[k]

Dangerous(path) ==
  {c \in At(path) : /\ FixedMatches(c, path)
                    /\ c.confirmation_status = "dangerous_do_not_run"
                    /\ Template(c) \subseteq Given(path)}

Exact(path) ==
  {c \in At(path) : /\ FixedMatches(c, path)
                    /\ Required(c) \subseteq Given(path)
                    /\ Given(path) \subseteq Template(c)}

(* Mutant of Malformed: a write with fields added or missing is unknown.    *)
NeverMalformed(path) == FALSE

(* A path of no command that resembles a known write.                       *)
Malformed(path) ==
  LET writes == {c \in At(path) : c.read_or_write = "write"}
      near   == {c \in writes : ~Contradicts(c, path)}
  IN  \/ \E c \in near : Template(c) \subseteq Given(path)
      \/ \E c \in writes : \/ ~c.raw_accessible \/ c.recovery_required
                           \/ c.confirmation_status = "dangerous_do_not_run"
      \/ Cardinality(writes) = 1
      \/ \E c \in near : DOMAIN c.fixed \cap Given(path) # {}

(* The commands a path may be taken for: none if it is unknown.  More than  *)
(* one is a CatalogError, as is a path that IsRejected.                     *)
Taken(path) == IF Dangerous(path) # {} THEN Dangerous(path) ELSE Exact(path)

IsRejected(path) ==
  \/ path.duplicated
  \/ Cardinality(Taken(path)) > 1
  \/ Taken(path) = {} /\ Malformed(path)

-----------------------------------------------------------------------------
(* CommandDefinition.require_permission.                                    *)
Permitted(c, flags) ==
  /\ c.confirmation_status \notin {"dangerous_do_not_run", "failed"}
  /\ c.confirmation_status = "confirmed" \/ "experimental" \in flags
  /\ c.risk_level \in {"risky_write", "destructive", "unknown"} => "confirm" \in flags

(* _send_raw_path of a known command: recovery_ready and a request without  *)
(* retries are for its guarded method.                                      *)
KnownMaySend(c, flags, retry) ==
  /\ Permitted(c, flags)
  /\ c.recovery_required => "recovery_ready" \in flags
  /\ c.retry_policy = "one_shot" => ~retry

(* What becomes of send_raw_cgi: refused, or sent with or without retries.  *)
RawVerdict(path, flags, retry) ==
  IF IsRejected(path) THEN "refused"
  ELSE IF Taken(path) = {}
  THEN IF {"experimental", "confirm"} \subseteq flags THEN "once" ELSE "refused"
  ELSE IF \A c \in Taken(path) : OpenToRaw(c) /\ KnownMaySend(c, flags, retry)
  THEN IF retry THEN "retried" ELSE "once"
  ELSE "refused"

(* A path that does what the command does: it gives all that it requires.   *)
Carries(path, c) ==
  /\ c \in At(path) /\ FixedMatches(c, path) /\ Required(c) \subseteq Given(path)
=============================================================================
