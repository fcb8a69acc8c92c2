-------------------------- MODULE CommandAuthority --------------------------
(***************************************************************************)
(* The command authority policy (CommandAuthorityTypes.cpp,                 *)
(* CommandAuthorityCatalog.cpp): which link may issue which command.  The   *)
(* command catalogue is abstracted to one opcode per kind of entry that the *)
(* code tells apart.                                                        *)
(***************************************************************************)
EXTENDS Naturals

Config(identity, role) == [valid |-> TRUE, identity |-> identity, role |-> role]

NoConfig == [valid |-> FALSE, identity |-> "UNKNOWN", role |-> "UNKNOWN"]

\* authorityConfigFromProfile.
ProfileConfig(profile) ==
  CASE profile = "sband-primary" -> Config("SBAND", "PRIMARY")
    [] profile = "uhf-primary"   -> Config("UHF", "PRIMARY_AFTER_FAILOVER")
    [] profile = "uhf-backup"    -> Config("UHF", "BACKUP")
    [] profile = "dev-direct"    -> Config("DEV_DIRECT", "DEV_FULL")
    [] profile = "internal"      -> Config("INTERNAL", "INTERNAL")
    [] OTHER                     -> NoConfig

\* secureServiceIdForAuthorityIdentity; 0 is no secure service.
ServiceOf(identity) == IF identity = "SBAND" THEN 1 ELSE IF identity = "UHF" THEN 2 ELSE 0

IsCommManaged(config) == ~config.valid \/ config.identity \in {"SBAND", "UHF"}

IsRestricted(config) == ~config.valid \/ (IsCommManaged(config) /\ config.role = "BACKUP")

\* One opcode per kind of catalogue entry: a status read and the governed
\* sequence commands are open to the backup link, control commands and the
\* stock sequencer commands are not.  GHOST is in no entry.
Catalog == [STATUS |-> TRUE, CONTROL |-> FALSE, SEQ_CONTROL |-> TRUE, SEQUENCER |-> FALSE]

\* evaluateCommandAuthority: the reject reason, NONE when allowed.
AuthorityReject(config, opcode) ==
  IF ~config.valid THEN "INVALID_CONFIG"
  ELSE IF opcode \notin DOMAIN Catalog
         THEN IF IsCommManaged(config) THEN "UNKNOWN_OPCODE_RESTRICTED" ELSE "NONE"
  ELSE IF ~IsRestricted(config) \/ Catalog[opcode] THEN "NONE" ELSE "POLICY_DENIED"

\* The sequencing commands no sequence may contain (isForbiddenNestedSequencingOpcode).
NestedSequencing == {"SEQ_CONTROL", "SEQUENCER"}
=============================================================================
