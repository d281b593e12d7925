-------------------------------- MODULE Boot ----------------------------------
(***************************************************************************)
(* From a parsed configuration to a running engine: Config::validate of    *)
(* crates/config/src/lib.rs, then run and wire_phase4 of                   *)
(* crates/app/src/lib.rs, which build the signer, open the four journals   *)
(* and the relay adapter and take the SubmissionGate snapshot.  Once       *)
(* running, each journal's driver writes to its file at its own offset and *)
(* the submission path posts to the configured endpoint.                   *)
(*                                                                         *)
(* A text field is what validate tells apart in it; a journal record fills *)
(* one slot of its file.                                                   *)
(***************************************************************************)
EXTENDS Naturals, Sequences

CONSTANTS
  Configs,     \* the configurations that may be loaded
  Paths,       \* file names
  NoPath,      \* the empty path
  Addresses,   \* pool addresses
  MaxRecords   \* bound: records each journal writes

Endpoints == {"localhost", "remote", "garbage", "blank"}
JournalFields == {"file", "ingress", "state", "mismatch", "submission"}

Config ==
  [fallbackRpc : BOOLEAN, gethWsUrl : BOOLEAN, gethHttpUrl : BOOLEAN,  \* given or not
   archiveRpc : BOOLEAN, watchedAddresses : BOOLEAN, tokensDiffer : BOOLEAN,
   busCapacity : Nat, pools : Seq(Addresses),
   profile : {"Dev", "Test", "Shadow", "Production"},
   keyBackend : {"Disabled", "HsmKms"}, auditKey : BOOLEAN,
   liveSend : BOOLEAN, allowNonLocalhost : BOOLEAN, relays : Seq(Endpoints),
   cacheCapacity : Nat, prefetch : BOOLEAN,
   path : [JournalFields -> Paths \cup {NoPath}]]

ASSUME BootAssumption == /\ Configs \subseteq Config
                         /\ NoPath \notin Paths /\ MaxRecords \in Nat

-----------------------------------------------------------------------------
(* Config::validate *)

IsLocalhost(endpoint) == endpoint = "localhost"

RemoteRelayRefusedUnparsedOnly(c) ==
  /\ c.liveSend /\ ~ c.allowNonLocalhost
  /\ \E i \in DOMAIN c.relays : c.relays[i] \in {"garbage", "blank"}
RemoteRelayRefused(c) ==
  /\ c.liveSend /\ ~ c.allowNonLocalhost
  /\ \E i \in DOMAIN c.relays : ~ IsLocalhost(c.relays[i])

\* The paths of the journal_paths array.
CheckedJournalsPhase3 == <<"file", "ingress", "state">>
CheckedJournals == <<"file", "ingress", "state", "mismatch">>

Same(field, other, c) == c.path[field] = c.path[other]

\* Every check of validate, in order, with the condition that makes it return.
Checks(c) ==
  LET paths == CheckedJournals
      twice(s) == \E i, j \in DOMAIN s : i < j /\ s[i] = s[j]
  IN << [err |-> "MissingFallbackRpc", bad |-> ~ c.fallbackRpc],
        [err |-> "EmptyRequiredField", bad |-> ~ c.gethWsUrl \/ ~ c.gethHttpUrl],
        [err |-> "InvalidBusCapacity", bad |-> c.busCapacity = 0],
        [err |-> "EmptyWatchedAddresses", bad |-> ~ c.watchedAddresses],
        [err |-> "DuplicateIngressTokens", bad |-> ~ c.tokensDiffer],
        [err |-> "EmptyStatePools", bad |-> c.pools = <<>>],
        [err |-> "DuplicatePoolAddress", bad |-> twice(c.pools)],
        [err |-> "LiveSendRequiresProductionProfile",
         bad |-> c.liveSend /\ c.profile # "Production"],
        [err |-> "LiveSendRequiresHsmKms",
         bad |-> c.liveSend /\ c.profile = "Production" /\ c.keyBackend # "HsmKms"],
        [err |-> "LiveSendRequiresLocalhostEndpoint", bad |-> RemoteRelayRefused(c)],
        [err |-> "ProductionProfileRequiresHsmKms",
         bad |-> c.profile = "Production" /\ c.keyBackend # "HsmKms"],
        [err |-> "HsmKmsRequiresProductionProfile",
         bad |-> c.keyBackend = "HsmKms" /\ c.profile # "Production"],
        [err |-> "HsmKmsRequiresNonEmptyAuditKeyId",
         bad |-> c.keyBackend = "HsmKms" /\ ~ c.auditKey],
        [err |-> "InvalidCacheCapacity", bad |-> c.cacheCapacity = 0],
        [err |-> "PrefetchRequiresArchiveRpc", bad |-> c.prefetch /\ ~ c.archiveRpc],
        [err |-> "TooManyEnabledRelays", bad |-> Len(c.relays) > 1],
        [err |-> "EmptyRelayEndpoint",
         bad |-> \E i \in DOMAIN c.relays : c.relays[i] = "blank"],
        [err |-> "EmptyJournalPath",
         bad |-> \E i \in DOMAIN paths : c.path[paths[i]] = NoPath],
        [err |-> "DuplicateJournalPath",
         bad |-> \E i, j \in DOMAIN paths : i < j /\ Same(paths[i], paths[j], c)] >>

Failing(c) == {i \in DOMAIN Checks(c) : Checks(c)[i].bad}
Verdict(c) ==
  IF Failing(c) = {} THEN "Ok"
  ELSE Checks(c)[CHOOSE i \in Failing(c) : \A j \in Failing(c) : i <= j].err

-----------------------------------------------------------------------------
(* run and wire_phase4 *)

VARIABLES
  cfg,         \* the configuration loaded
  step,        \* how far the boot is
  error,       \* what ended it ("none" while it goes on)
  signer,      \* the Signer built
  opened,      \* journals open, in order
  offset,      \* each journal's byte_offset, in slots
  file,        \* contents of each path: which record is in which slot
  written,     \* records each journal has appended
  posted       \* endpoints eth_sendBundle was posted to

vars == <<cfg, step, error, signer, opened, offset, file, written, posted>>

\* wire_phase4 opens these; file_journal_path is only used by the Phase 1 wire().
Opening == <<"ingress", "state", "mismatch", "submission">>
Opened == {opened[i] : i \in DOMAIN opened}

Init ==
  /\ cfg \in Configs
  /\ step = "loaded" /\ error = "none" /\ signer = "none"
  /\ opened = <<>>
  /\ offset = [j \in JournalFields |-> 0]
  /\ file = [p \in Paths |-> <<>>]
  /\ written = [j \in JournalFields |-> 0]
  /\ posted = {}

Stop(why) ==
  /\ step' = "stopped" /\ error' = why
  /\ UNCHANGED <<cfg, signer, opened, offset, file, written, posted>>

\* Config::load runs validate on what it parsed.
Validate ==
  /\ step = "loaded"
  /\ IF Verdict(cfg) = "Ok"
     THEN /\ step' = "accepted"
          /\ UNCHANGED <<cfg, error, signer, opened, offset, file, written, posted>>
     ELSE Stop(Verdict(cfg))

\* The signer is chosen by key_backend; a KMS boot may fail.
BuildSignerUnmapped ==
  /\ step = "accepted"
  /\ step' = "wiring"
  /\ signer' = cfg.keyBackend
  /\ UNCHANGED <<cfg, error, opened, offset, file, written, posted>>
BuildSigner ==
  /\ step = "accepted"
  /\ step' = "wiring"
  /\ signer' = IF cfg.keyBackend = "HsmKms" THEN "production" ELSE "disabled"
  /\ UNCHANGED <<cfg, error, opened, offset, file, written, posted>>
KmsFails == step = "accepted" /\ cfg.keyBackend = "HsmKms" /\ Stop("ProductionSignerInit")

\* FileJournal::open: the writer stands at the end of what the file holds.  An empty
\* path cannot be opened.
OpenJournal ==
  LET j == Opening[Len(opened) + 1]
      p == cfg.path[j]
  IN /\ step = "wiring" /\ Len(opened) < Len(Opening) /\ p # NoPath
     /\ opened' = Append(opened, j)
     /\ offset' = [offset EXCEPT ![j] = Len(file[p])]
     /\ UNCHANGED <<cfg, step, error, signer, file, written, posted>>

\* The node connection, the snapshot or a journal open may fail; nothing was spawned yet.
WireFails == step = "wiring" /\ Stop("Wire")

\* Both adapters are built from the first relay, whose endpoint must parse; then every
\* task is spawned.
BuildRelay ==
  /\ step = "wiring" /\ Len(opened) = Len(Opening)
  /\ \/ cfg.relays = <<>>
     \/ cfg.relays # <<>> /\ cfg.relays[1] \notin {"garbage", "blank"}
  /\ step' = "running"
  /\ UNCHANGED <<cfg, error, signer, opened, offset, file, written, posted>>

\* SubmissionGate::from_config and permits_submission.
PermitsProduction(c) == c.profile = "Production" /\ c.keyBackend = "HsmKms"
Permits(c) == c.liveSend /\ c.profile = "Production" /\ c.keyBackend = "HsmKms"

\* The endpoint check at the top of submit_bundle.
AdapterPermits(c) == c.allowNonLocalhost \/ IsLocalhost(c.relays[1])

\* A driver appends and the bytes reach the file: they land at the handle's own offset,
\* over whatever is there.
WriteRecord(j) ==
  LET p == cfg.path[j]
      at == offset[j] + 1
      record == [of |-> j, number |-> written[j] + 1]
  IN /\ step = "running" /\ j \in Opened /\ written[j] < MaxRecords
     /\ written' = [written EXCEPT ![j] = @ + 1]
     /\ offset' = [offset EXCEPT ![j] = at]
     /\ file' = [file EXCEPT ![p] =
                   IF at <= Len(@) THEN [@ EXCEPT ![at] = record] ELSE Append(@, record)]
     /\ UNCHANGED <<cfg, step, error, signer, opened, posted>>

\* submission_driver and the adapter let an attempt through.
Post ==
  /\ step = "running" /\ cfg.relays # <<>>
  /\ Permits(cfg) /\ AdapterPermits(cfg)
  /\ posted' = posted \cup {cfg.relays[1]}
  /\ UNCHANGED <<cfg, step, error, signer, opened, offset, file, written>>

Next ==
  \/ Validate \/ BuildSigner \/ KmsFails
  \/ OpenJournal \/ WireFails \/ BuildRelay
  \/ \E j \in JournalFields : WriteRecord(j)
  \/ Post

Spec == Init /\ [][Next]_vars

-----------------------------------------------------------------------------
(* Properties *)

Authorised(c) ==
  c.liveSend /\ c.profile = "Production" /\ c.keyBackend = "HsmKms" /\ c.auditKey

\* The types of the configuration, of the boot's progress and of the files.
TypeOK ==
  /\ cfg \in Config
  /\ step \in {"loaded", "accepted", "wiring", "running", "stopped"}
  /\ signer \in {"none", "disabled", "production"}
  /\ opened \in Seq(JournalFields) /\ Len(opened) <= Len(Opening)
  /\ offset \in [JournalFields -> Nat] /\ written \in [JournalFields -> 0 .. MaxRecords]
  /\ file \in [Paths -> Seq([of : JournalFields, number : 1 .. MaxRecords])]
  /\ posted \subseteq Endpoints

\* An engine whose gate permits submission was booted with a KMS signer, an audit key
\* and an endpoint the adapter will not refuse: whatever live_send lets through, validate
\* has checked.
LiveIsAuthorised ==
  step = "running" /\ Permits(cfg) =>
    /\ Authorised(cfg) /\ signer = "production"
    /\ cfg.relays # <<>> => AdapterPermits(cfg)

\* No bundle leaves the process of an engine that is not authorised, nor for a host
\* other than this one without the operator's second opt-in.
PostsAreAuthorised ==
  posted # {} => /\ Authorised(cfg)
                 /\ posted \subseteq {"localhost"} \/ cfg.allowNonLocalhost

Kept(j) ==
  LET p == cfg.path[j]
      start == offset[j] - written[j]
  IN \A k \in 1 .. written[j] : file[p][start + k] = [of |-> j, number |-> k]

\* Only a submission journal that shares its file can lose another journal's records:
\* every journal at a path of its own finds what it wrote where it wrote it.
KeptUnlessSharedWithSubmission ==
  \A j \in Opened \ {"submission"} :
    step = "running" /\ ~ Same(j, "submission", cfg) => Kept(j)

\* config/src/lib.rs: "all paths must point at distinct files", so that no journal's
\* records end up under another's.
AppendedIsKept == step = "running" => \A j \in Opened : Kept(j)
=============================================================================
