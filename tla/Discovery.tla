------------------------------ MODULE Discovery ------------------------------
(***************************************************************************)
(* LAN discovery (discovery_udp.py, discovery.py), the profile it saves    *)
(* (config.py) and what a later connection makes of that profile           *)
(* (transport_aiopppp.py).                                                 *)
(*                                                                         *)
(* Cameras answer search packets they can decode, in the clear or with     *)
(* their seed; a reply is decoded by the seed it was encoded with.  The    *)
(* network loses and reorders replies, and between two searches cameras    *)
(* change addresses.                                                       *)
(***************************************************************************)
EXTENDS CliProcesses, FiniteSets

CONSTANTS
  Hosts,          (* addresses                                             *)
  Cameras,        (* device IDs                                            *)
  Seeds,          (* psk values                                            *)
  None,           (* None                                                  *)
  PskForDeviceId, (* the seed known for a device ID, or None               *)
  SeedOf,         (* the seed the camera uses, or None: it has none        *)
  InTheClear      (* the cameras that answer plaintext searches            *)

ASSUME CamerasAssumption ==
  /\ None \notin Seeds /\ None \notin Hosts /\ None \notin Cameras
  /\ PskForDeviceId \in [Cameras -> Seeds \cup {None}]
  /\ SeedOf \in [Cameras -> Seeds \cup {None}]
  /\ InTheClear \subseteq Cameras
  (* A camera answers in one way at least, and the table of seeds is right. *)
  /\ \A c \in Cameras : SeedOf[c] # None \/ c \in InTheClear
  /\ \A c \in Cameras : PskForDeviceId[c] \in {None, SeedOf[c]}

KnownPsks == {PskForDeviceId[c] : c \in Cameras} \ {None}

VARIABLES
  lan,      (* the camera at each address                                  *)
  search    (* the search or the connection of each process                *)

lanVars == <<lan, search>>

(* What a profile, or a configuration, says of its camera.                  *)
Profiles == [host : Hosts, id : Cameras, psk : Seeds \cup {None}]

(* host, expected, encrypted, matching and first are expected_host,         *)
(* expected_device_id, require_encrypted, require_matching_profile and      *)
(* stop_after_first of discover_with_seeds; device and psk those of its     *)
(* callers; found the camera selected or resolved.                          *)
NoSearch ==
  [pc |-> "idle", purpose |-> "select", host |-> None, expected |-> None,
   seeds |-> {}, encrypted |-> FALSE, matching |-> FALSE, first |-> FALSE,
   device |-> None, psk |-> None, seen |-> {}, found |-> None]

DiscoveryInit ==
  /\ lan \in [Hosts -> Cameras \cup {None}]
  /\ \A h, g \in Hosts : lan[h] = lan[g] /\ h # g => lan[h] = None
  /\ search = [p \in Processes |-> NoSearch]

Searches(p, purpose) == search[p].pc = "search" /\ search[p].purpose = purpose

EndSearch(p, pc, found) ==
  search' = [search EXCEPT ![p] =
    [NoSearch EXCEPT !.pc = pc, !.purpose = search[p].purpose, !.found = found]]

-----------------------------------------------------------------------------
(* discover_with_seeds.  A reply names the address and the camera; its psk  *)
(* is the seed that decodes it, None in the clear.                          *)
Replies(s) ==
  LET there == {h \in Hosts : lan[h] # None /\ s.host \in {None, h}}
  IN  {[host |-> h, id |-> lan[h], psk |-> None] :
         h \in {h \in there : lan[h] \in InTheClear /\ ~s.encrypted}}
      \cup {[host |-> h, id |-> lan[h], psk |-> SeedOf[lan[h]]] :
         h \in {h \in there : SeedOf[lan[h]] \in s.seeds}}

Accepted(s, r) ==
  /\ r.psk # None /\ s.matching => PskForDeviceId[r.id] = r.psk
  /\ s.expected \in {None, r.id}
  /\ s.encrypted => r.psk # None

(* One turn of the receiving loop, before the deadline.                     *)
Receive(p) ==
  /\ search[p].pc = "search"
  /\ search[p].first => search[p].seen = {}
  /\ \E r \in Replies(search[p]) \ search[p].seen :
       /\ Accepted(search[p], r)
       /\ search' = [search EXCEPT ![p].seen = @ \cup {r}]
  /\ lan' = lan

-----------------------------------------------------------------------------
(* What discover searches for: one camera, whose profile is saved or which  *)
(* is shown, or all that answer.                                            *)
Looking == {"save", "select", "list"}

(* discover_camera, where a device ID selects its seed unless one is given, *)
(* and discover_cameras, which is not given a device ID.                    *)
StartDiscover(p, purpose, host, device, psk) ==
  /\ search[p].pc = "idle"
  /\ LET chosen == IF psk = None /\ device # None THEN PskForDeviceId[device] ELSE psk
     IN  search' = [search EXCEPT ![p] =
           [NoSearch EXCEPT !.pc = "search", !.purpose = purpose, !.host = host,
                        !.device = device, !.psk = chosen, !.matching = (chosen = None),
                        !.seeds = IF chosen = None THEN KnownPsks ELSE {chosen}]]
  /\ lan' = lan

(* discover_cameras: one item for each endpoint of a device, the encrypted  *)
(* one if there is one.                                                     *)
Items(s) ==
  {[host |-> r.host, id |-> r.id, encrypted |-> r.psk # None,
    psk |-> IF r.psk = None THEN s.psk ELSE r.psk] :
     r \in {r \in s.seen : r.psk = None =>
              ~\E o \in s.seen : o.host = r.host /\ o.id = r.id /\ o.psk # None}}

(* _select_discovered_camera.                                               *)
Matches(s) == {i \in Items(s) : s.device \in {None, i.id}}

Candidates(s) ==
  LET encrypted == {i \in Matches(s) : i.encrypted}
  IN  IF encrypted = {} THEN Matches(s) ELSE encrypted

(* Mutant of Unambiguous: any of the endpoints will do.                     *)
OneDevice(s) == Cardinality({i.id : i \in Matches(s)}) = 1

Unambiguous(s) ==
  /\ Cardinality({i.id : i \in Matches(s)}) = 1
  /\ Cardinality({i.host : i \in Matches(s)}) = 1
  /\ Cardinality({i.host : i \in Candidates(s)}) = 1

DiscoverEnds(p) ==
  /\ Searches(p, "save") \/ Searches(p, "select")
  /\ LET s == search[p]
     IN  IF Unambiguous(s)
         THEN \E item \in Candidates(s) : EndSearch(p, "found", item)
         ELSE EndSearch(p, "failed", None)
  /\ lan' = lan

(* A list has whatever answered, be it nothing.                             *)
ListEnds(p) ==
  /\ Searches(p, "list")
  /\ EndSearch(p, "listed", None)
  /\ lan' = lan

(* The socket fails.                                                        *)
DiscoverFails(p) ==
  /\ \E purpose \in Looking : Searches(p, purpose)
  /\ EndSearch(p, "failed", None)
  /\ lan' = lan

(* What save_discovered_profile writes: a seed that the device ID does not  *)
(* tell.                                                                    *)
SavedProfile(p) ==
  LET item == search[p].found
  IN  [host |-> item.host, id |-> item.id,
       psk |-> IF item.psk = PskForDeviceId[item.id] THEN None ELSE item.psk]

-----------------------------------------------------------------------------
(* wait_for_camera_on_lan: one search after another until one finds it.     *)
StartWait(p, host, device, psk, encrypted) ==
  /\ search[p].pc = "idle"
  /\ search' = [search EXCEPT ![p] =
       [NoSearch EXCEPT !.pc = "search", !.purpose = "wait", !.host = host,
                    !.device = device, !.expected = device, !.psk = psk,
                    !.encrypted = encrypted, !.matching = (psk = None),
                    !.first = TRUE,
                    !.seeds = IF psk # None THEN {psk}
                              ELSE IF PskForDeviceId[device] # None
                              THEN {PskForDeviceId[device]} ELSE KnownPsks]]
  /\ lan' = lan

(* A search ends with its first result or its deadline; without a result    *)
(* the next one follows.                                                    *)
WaitEnds(p) ==
  /\ Searches(p, "wait")
  /\ \/ \E r \in search[p].seen : EndSearch(p, "found",
          [host |-> r.host, id |-> r.id, encrypted |-> r.psk # None, psk |-> r.psk])
     \/ EndSearch(p, "failed", None)
  /\ lan' = lan

-----------------------------------------------------------------------------
(* _resolve_descriptor of a connection with a profile: a search for an      *)
(* encrypted camera at its address, ...                                     *)
StartConnect(p, profile) ==
  /\ search[p].pc # "search"
  /\ search' = [search EXCEPT ![p] =
       [NoSearch EXCEPT !.pc = "search", !.purpose = "encrypted", !.host = profile.host,
                    !.device = profile.id, !.psk = profile.psk,
                    !.encrypted = TRUE, !.matching = (profile.psk = None),
                    !.first = TRUE,
                    !.seeds = IF profile.psk # None THEN {profile.psk}
                              ELSE IF PskForDeviceId[profile.id] # None
                              THEN {PskForDeviceId[profile.id]} ELSE KnownPsks]]
  /\ lan' = lan

(* Mutant of Resolve: whichever camera answered will do.                    *)
ResolveAny(p) ==
  /\ search[p].pc = "search" /\ search[p].purpose \in {"encrypted", "plaintext"}
  /\ \E r \in search[p].seen :
       EndSearch(p, "connected", [host |-> r.host, id |-> r.id, psk |-> r.psk,
                                  answered |-> TRUE])
  /\ lan' = lan

(* ... which another camera may answer.                                     *)
Resolve(p) ==
  /\ search[p].pc = "search" /\ search[p].purpose \in {"encrypted", "plaintext"}
  /\ \E r \in search[p].seen :
       IF r.id # search[p].device THEN EndSearch(p, "failed", None)
       ELSE EndSearch(p, "connected",
              [host |-> r.host, id |-> r.id, psk |-> r.psk, answered |-> TRUE])
  /\ lan' = lan

(* No answer: the next search is for one in the clear, ...                  *)
NoEncrypted(p) ==
  /\ Searches(p, "encrypted") /\ search[p].seen = {}
  /\ search' = [search EXCEPT ![p].purpose = "plaintext", ![p].seeds = {},
                              ![p].encrypted = FALSE, ![p].matching = FALSE]
  /\ lan' = lan

(* ... and then the configuration is taken at its word, if there is a seed. *)
NoPlaintext(p) ==
  /\ Searches(p, "plaintext") /\ search[p].seen = {}
  /\ LET s == search[p]
         psk == IF s.psk # None THEN s.psk ELSE PskForDeviceId[s.device]
     IN  IF psk = None THEN EndSearch(p, "failed", None)
         ELSE EndSearch(p, "connected", [host |-> s.host, id |-> s.device,
                                         psk |-> psk, answered |-> FALSE])
  /\ lan' = lan

SearchStep(p) ==
  \/ DiscoverEnds(p) \/ ListEnds(p) \/ DiscoverFails(p) \/ WaitEnds(p)
  \/ Resolve(p) \/ NoEncrypted(p) \/ NoPlaintext(p)

(* A camera leaves its address for another, or for none.                    *)
CameraMoves ==
  /\ \E h \in Hosts : lan[h] # None /\ \E g \in Hosts \ {h} :
       lan' = [lan EXCEPT ![h] = lan[g], ![g] = lan[h]]
  /\ search' = search
-----------------------------------------------------------------------------
(***************************************************************************)
(* Properties.                                                             *)
(***************************************************************************)
(* A camera is found only if it answered as it was asked for, and all that  *)
(* was heard of it came from one address, although replies are lost, come   *)
(* from several cameras, or from one that moved meanwhile; an encrypted     *)
(* answer is not given up for one in the clear (discovery.py 65-109,        *)
(* discovery_udp.py 190-205).                                               *)
FoundIsUnambiguous ==
  [][\A p \in Processes : search[p].pc = "search" /\ search'[p].pc = "found" =>
       LET s     == search[p]
           found == search'[p].found
           heard == {r \in s.seen : r.id = found.id}
       IN  /\ {r.host : r \in heard} = {found.host}
           /\ s.device \in {None, found.id}
           /\ s.device = None => heard = s.seen
           /\ found.encrypted <=> \E r \in heard : r.psk # None]_lanVars
=============================================================================
