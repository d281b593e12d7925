------------------------------ MODULE BootProofs ------------------------------
(***************************************************************************)
(* Proofs about Boot, for any set of configurations and any paths: what    *)
(* validate refuses, and what an engine that boots may therefore do.       *)
(***************************************************************************)
EXTENDS Boot, NumberLemmas, SequenceTheorems

-----------------------------------------------------------------------------
(* Config::validate *)

\* There are nineteen checks, and none of them fails with "Ok".
LEMMA ChecksName ==
  ASSUME NEW c
  PROVE  DOMAIN Checks(c) = 1 .. 19 /\ \A i \in 1 .. 19 : Checks(c)[i].err # "Ok"
BY DEF Checks

\* validate answers Ok only if every check passes: a least failing check would be named.
LEMMA OkMeansNoneFails ==
  ASSUME NEW c, Verdict(c) = "Ok"
  PROVE  \A i \in 1 .. 19 : ~ Checks(c)[i].bad
<1> SUFFICES ASSUME Failing(c) # {} PROVE FALSE
  BY ChecksName DEF Failing
<1>1. Failing(c) \in SUBSET Nat
  BY ChecksName DEF Failing
<1>2. \E i \in Failing(c) : \A j \in Failing(c) : i <= j
  BY <1>1, Least
<1> DEFINE first == CHOOSE i \in Failing(c) : \A j \in Failing(c) : i <= j
<1>3. first \in Failing(c)
  BY <1>2
<1>. QED
  BY <1>3, ChecksName DEF Verdict, Failing

\* What the running engine relies on: no live_send without a Production profile, an HSM
\* signer and local relays or the second opt-in, no HSM signer without an audit key, and
\* four distinct journal files, none of them empty.
Sound(c) ==
  /\ c.liveSend => c.profile = "Production" /\ c.keyBackend = "HsmKms"
  /\ c.liveSend /\ ~ c.allowNonLocalhost => \A i \in DOMAIN c.relays : IsLocalhost(c.relays[i])
  /\ c.keyBackend = "HsmKms" => c.auditKey
  /\ \A i, j \in DOMAIN CheckedJournals : i < j => ~ Same(CheckedJournals[i], CheckedJournals[j], c)

LEMMA OkMeansSound ==
  ASSUME NEW c, Verdict(c) = "Ok"
  PROVE  Sound(c)
<1>1. ~ Checks(c)[8].bad /\ ~ Checks(c)[9].bad /\ ~ Checks(c)[10].bad
      /\ ~ Checks(c)[13].bad /\ ~ Checks(c)[19].bad
  BY OkMeansNoneFails
<1>2. ~ (c.liveSend /\ c.profile # "Production")
  BY <1>1 DEF Checks
<1>3. ~ (c.liveSend /\ c.profile = "Production" /\ c.keyBackend # "HsmKms")
  BY <1>1 DEF Checks
<1>4. ~ RemoteRelayRefused(c)
  BY <1>1 DEF Checks
<1>5. ~ (c.keyBackend = "HsmKms" /\ ~ c.auditKey)
  BY <1>1 DEF Checks
<1>6. \A i, j \in DOMAIN CheckedJournals : i < j => ~ Same(CheckedJournals[i], CheckedJournals[j], c)
  BY <1>1 DEF Checks
<1>. QED
  BY <1>2, <1>3, <1>4, <1>5, <1>6 DEF Sound, RemoteRelayRefused

-----------------------------------------------------------------------------
(* run and wire_phase4 *)

\* Every journal opened so far is the next of Opening, at a path that is one.
OpenedInv ==
  /\ Len(opened) <= 4
  /\ \A i \in 1 .. Len(opened) : opened[i] = Opening[i] /\ cfg.path[Opening[i]] \in Paths

\* Past validate the configuration is sound, and the signer is the one it asks for; what
\* was posted went to the one relay, through the gate and the adapter's guard.
BootInv ==
  /\ TypeOK /\ OpenedInv
  /\ step \in {"accepted", "wiring", "running"} => Sound(cfg)
  /\ step \in {"wiring", "running"} =>
       signer = IF cfg.keyBackend = "HsmKms" THEN "production" ELSE "disabled"
  /\ step = "running" => Len(opened) = 4
  /\ posted # {} =>
       /\ step = "running" /\ cfg.relays # <<>> /\ posted = {cfg.relays[1]}
       /\ Permits(cfg) /\ AdapterPermits(cfg)

LEMMA OpeningOrder ==
  /\ Len(Opening) = 4
  /\ Opening[1] = "ingress" /\ Opening[2] = "state" /\ Opening[3] = "mismatch"
  /\ Opening[4] = "submission"
  /\ \A i \in 1 .. 4 : Opening[i] \in JournalFields
BY DEF Opening, JournalFields

LEMMA OpenedTyped ==
  ASSUME BootInv
  PROVE  opened \in Seq(JournalFields) /\ Len(opened) \in 0 .. 4 /\ DOMAIN opened = 1 .. Len(opened)
<1>1. opened \in Seq(JournalFields) /\ Len(opened) <= 4
  BY DEF BootInv, TypeOK, OpenedInv
<1>2. Len(opened) \in Nat /\ DOMAIN opened = 1 .. Len(opened)
  BY <1>1, LenProperties
<1>. QED
  BY <1>1, <1>2

LEMMA OpenJournalKeepsBoot ==
  ASSUME BootInv, OpenJournal
  PROVE  BootInv'
<1> DEFINE j == Opening[Len(opened) + 1]
           p == cfg.path[j]
<1>1. /\ step = "wiring" /\ Len(opened) < 4 /\ p # NoPath
      /\ opened' = Append(opened, j)
      /\ offset' = [offset EXCEPT ![j] = Len(file[p])]
      /\ UNCHANGED <<cfg, step, error, signer, file, written, posted>>
  BY OpeningOrder DEF OpenJournal
<1>2. j \in JournalFields /\ cfg.path \in [JournalFields -> Paths \cup {NoPath}]
  <2>1. Len(opened) + 1 \in 1 .. 4
    BY <1>1, OpenedTyped
  <2>2. j \in JournalFields
    BY <2>1, OpeningOrder
  <2>3. cfg.path \in [JournalFields -> Paths \cup {NoPath}]
    BY DEF BootInv, TypeOK, Config
  <2>. QED
    BY <2>2, <2>3
<1>3. p \in Paths /\ Len(file[p]) \in Nat
  BY <1>1, <1>2 DEF BootInv, TypeOK
<1>4. /\ opened' \in Seq(JournalFields) /\ Len(opened') = Len(opened) + 1
      /\ \A i \in 1 .. Len(opened) : opened'[i] = opened[i]
      /\ opened'[Len(opened) + 1] = j
  BY <1>1, <1>2, AppendProperties, OpenedTyped
<1>5. OpenedInv'
  BY <1>1, <1>3, <1>4, OpenedTyped DEF BootInv, OpenedInv
<1>6. TypeOK'
  <2>1. offset' \in [JournalFields -> Nat]
    BY <1>1, <1>2, <1>3 DEF BootInv, TypeOK
  <2>2. Len(opened') <= Len(Opening)
    BY <1>1, <1>4, OpeningOrder, OpenedTyped
  <2>. QED
    BY <1>1, <1>4, <2>1, <2>2 DEF BootInv, TypeOK
<1>. QED
  BY <1>1, <1>5, <1>6 DEF BootInv

Record == [of : JournalFields, number : 1 .. MaxRecords]

\* A write lands one slot past the handle's offset, over what is there or behind it.
LEMMA WriteRecordEffect ==
  ASSUME BootInv, NEW j \in JournalFields, WriteRecord(j)
  PROVE  LET p == cfg.path[j] IN
         /\ step = "running" /\ j \in Opened /\ p \in Paths
         /\ file' \in [Paths -> Seq(Record)]
         /\ written' = [written EXCEPT ![j] = @ + 1] /\ offset' = [offset EXCEPT ![j] = @ + 1]
         /\ written[j] + 1 \in 1 .. MaxRecords /\ offset[j] \in Nat
         /\ \A q \in Paths \ {p} : file'[q] = file[q]
         /\ offset[j] <= Len(file[p]) =>
              /\ Len(file'[p]) = IF offset[j] = Len(file[p]) THEN Len(file[p]) + 1 ELSE Len(file[p])
              /\ \A k \in 1 .. Len(file'[p]) :
                   file'[p][k] = IF k = offset[j] + 1 THEN [of |-> j, number |-> written[j] + 1]
                                 ELSE file[p][k]
         /\ UNCHANGED <<cfg, step, error, signer, opened, posted>>
<1> DEFINE p == cfg.path[j]
           at == offset[j] + 1
           record == [of |-> j, number |-> written[j] + 1]
<1>1. /\ step = "running" /\ j \in Opened /\ written[j] < MaxRecords
      /\ written' = [written EXCEPT ![j] = @ + 1]
      /\ offset' = [offset EXCEPT ![j] = at]
      /\ file' = [file EXCEPT ![p] =
                   IF at <= Len(@) THEN [@ EXCEPT ![at] = record] ELSE Append(@, record)]
      /\ UNCHANGED <<cfg, step, error, signer, opened, posted>>
  BY DEF WriteRecord
<1>2. p \in Paths
  <2>1. PICK i \in 1 .. Len(opened) : j = opened[i]
    BY <1>1, OpenedTyped DEF Opened
  <2>. QED
    BY <2>1 DEF BootInv, OpenedInv
<1>3. written[j] \in Nat /\ offset[j] \in Nat /\ record \in Record /\ MaxRecords \in Nat
  BY <1>1, BootAssumption DEF BootInv, TypeOK, Record
<1>4. file \in [Paths -> Seq(Record)]
  BY DEF BootInv, TypeOK, Record
<1> DEFINE new == IF at <= Len(file[p]) THEN [file[p] EXCEPT ![at] = record]
                  ELSE Append(file[p], record)
<1>5. file' = [file EXCEPT ![p] = new]
  BY <1>1
<1>6. file[p] \in Seq(Record)
  BY <1>2, <1>4
<1>7. /\ new \in Seq(Record)
      /\ offset[j] <= Len(file[p]) =>
           /\ Len(new) = IF offset[j] = Len(file[p]) THEN Len(file[p]) + 1 ELSE Len(file[p])
           /\ \A k \in 1 .. Len(new) : new[k] = IF k = at THEN record ELSE file[p][k]
  <2>1. CASE at <= Len(file[p])
    <3>1. new \in Seq(Record) /\ Len(new) = Len(file[p])
      BY <1>3, <1>6, <2>1, ExceptSeq
    <3>. QED
      BY <1>3, <1>6, <2>1, <3>1, ExceptSeq
  <2>2. CASE ~ (at <= Len(file[p]))
    BY <1>3, <1>6, <2>2, AppendProperties
  <2>. QED
    BY <2>1, <2>2
<1> HIDE DEF new
<1>8. file' \in [Paths -> Seq(Record)] /\ file'[p] = new /\ \A q \in Paths \ {p} : file'[q] = file[q]
  BY <1>2, <1>4, <1>5, <1>7
<1>9. offset' = [offset EXCEPT ![j] = @ + 1] /\ written[j] + 1 \in 1 .. MaxRecords
  BY <1>1, <1>3
<1>. QED
  BY <1>1, <1>2, <1>3, <1>7, <1>8, <1>9

LEMMA BootInductive == Spec => []BootInv
<1>1. Init => BootInv
  <2> SUFFICES ASSUME Init PROVE BootInv
    OBVIOUS
  <2>1. TypeOK
    BY BootAssumption, OpeningOrder DEF Init, TypeOK
  <2>. QED
    BY <2>1 DEF Init, BootInv, OpenedInv
<1>2. BootInv /\ [Next]_vars => BootInv'
  <2> SUFFICES ASSUME BootInv, [Next]_vars PROVE BootInv'
    OBVIOUS
  <2>1. CASE Validate
    <3>1. CASE Verdict(cfg) = "Ok"
      BY <2>1, <3>1, OkMeansSound DEF Validate, BootInv, TypeOK, OpenedInv, Opened
    <3>2. CASE Verdict(cfg) # "Ok"
      BY <2>1, <3>2 DEF Validate, Stop, BootInv, TypeOK, OpenedInv
    <3>. QED
      BY <3>1, <3>2
  <2>2. CASE BuildSigner
    BY <2>2 DEF BuildSigner, BootInv, TypeOK, OpenedInv
  <2>3. CASE KmsFails \/ WireFails
    BY <2>3 DEF KmsFails, WireFails, Stop, BootInv, TypeOK, OpenedInv
  <2>4. CASE OpenJournal
    BY <2>4, OpenJournalKeepsBoot
  <2>5. CASE BuildRelay
    BY <2>5, OpeningOrder DEF BuildRelay, BootInv, TypeOK, OpenedInv
  <2>6. CASE \E j \in JournalFields : WriteRecord(j)
    <3>1. PICK j \in JournalFields : WriteRecord(j)
      BY <2>6
    <3>2. /\ file' \in [Paths -> Seq(Record)]
          /\ written' = [written EXCEPT ![j] = @ + 1] /\ offset' = [offset EXCEPT ![j] = @ + 1]
          /\ written[j] + 1 \in 1 .. MaxRecords /\ offset[j] \in Nat
          /\ UNCHANGED <<cfg, step, error, signer, opened, posted>>
      BY <3>1, WriteRecordEffect
    <3>3. /\ written' \in [JournalFields -> 0 .. MaxRecords]
          /\ offset' \in [JournalFields -> Nat]
      BY <3>2, BootAssumption DEF BootInv, TypeOK
    <3>4. TypeOK'
      BY <3>2, <3>3 DEF BootInv, TypeOK, Record
    <3>. QED
      BY <3>2, <3>4 DEF BootInv, OpenedInv
  <2>7. CASE Post
    <3>1. cfg.relays \in Seq(Endpoints) /\ cfg.relays # <<>>
      BY <2>7 DEF Post, BootInv, TypeOK, Config
    <3>2. cfg.relays[1] \in Endpoints
      BY <3>1
    <3>. QED
      BY <2>7, <3>2 DEF Post, BootInv, TypeOK, OpenedInv
  <2>8. CASE UNCHANGED vars
    BY <2>8 DEF vars, BootInv, TypeOK, OpenedInv
  <2>. QED
    BY <2>1, <2>2, <2>3, <2>4, <2>5, <2>6, <2>7, <2>8 DEF Next
<1>. QED
  BY <1>1, <1>2, PTL DEF Spec

\* The type invariant.
THEOREM TypeCorrect == Spec => []TypeOK
<1>1. BootInv => TypeOK
  BY DEF BootInv
<1>. QED
  BY <1>1, BootInductive, PTL

\* An engine whose gate permits submission is one validate has checked for it.
THEOREM LiveAuthorised == Spec => []LiveIsAuthorised
<1>1. BootInv => LiveIsAuthorised
  <2> SUFFICES ASSUME BootInv, step = "running", Permits(cfg)
               PROVE  /\ Authorised(cfg) /\ signer = "production"
                      /\ cfg.relays # <<>> => AdapterPermits(cfg)
    BY DEF LiveIsAuthorised
  <2>1. Sound(cfg) /\ cfg.liveSend /\ cfg.profile = "Production" /\ cfg.keyBackend = "HsmKms"
    BY DEF BootInv, Permits
  <2>2. Authorised(cfg) /\ signer = "production"
    BY <2>1 DEF BootInv, Sound, Authorised
  <2>3. ASSUME cfg.relays # <<>> PROVE AdapterPermits(cfg)
    <3>1. cfg.relays \in Seq(Endpoints)
      BY DEF BootInv, TypeOK, Config
    <3>2. 1 \in DOMAIN cfg.relays
      BY <2>3, <3>1
    <3>. QED
      BY <2>1, <3>2 DEF Sound, AdapterPermits
  <2>. QED
    BY <2>2, <2>3
<1>. QED
  BY <1>1, BootInductive, PTL

\* No bundle leaves an engine that is not authorised, nor for a foreign host unasked.
THEOREM PostsAuthorised == Spec => []PostsAreAuthorised
<1>1. BootInv => PostsAreAuthorised
  <2> SUFFICES ASSUME BootInv, posted # {}
               PROVE  Authorised(cfg) /\ (posted \subseteq {"localhost"} \/ cfg.allowNonLocalhost)
    BY DEF PostsAreAuthorised
  <2>1. /\ step = "running" /\ posted = {cfg.relays[1]} /\ Permits(cfg) /\ AdapterPermits(cfg)
        /\ Sound(cfg)
    BY DEF BootInv
  <2>. QED
    BY <2>1 DEF Permits, AdapterPermits, IsLocalhost, Authorised, Sound
<1>. QED
  BY <1>1, BootInductive, PTL

-----------------------------------------------------------------------------
(* The journals *)

Own(j) == j \in Opened /\ j # "submission" /\ ~ Same(j, "submission", cfg)

\* Before the drivers run nothing is written; then a journal at a path of its own stands
\* at the end of its file, which holds its records and no others.
FilesInv ==
  /\ step # "running" => /\ \A p \in Paths : file[p] = <<>>
                         /\ \A j \in JournalFields : offset[j] = 0 /\ written[j] = 0
  /\ \A j \in JournalFields : step = "running" /\ Own(j) =>
       LET p == cfg.path[j] IN
       /\ offset[j] = written[j] /\ Len(file[p]) = written[j]
       /\ \A k \in 1 .. written[j] : file[p][k] = [of |-> j, number |-> k]

\* wire_phase4's journals have paths; no two of them but for the submission journal can
\* have the same one, since validate compared them.
LEMMA OwnPathsDiffer ==
  ASSUME BootInv, step = "running"
  PROVE  /\ \A j \in Opened : j \in JournalFields /\ cfg.path[j] \in Paths
         /\ \A i, j \in Opened : Own(j) /\ i # j => cfg.path[i] # cfg.path[j]
<1>1. \A j \in Opened : \E i \in 1 .. 4 : j = Opening[i] /\ cfg.path[j] \in Paths
  BY OpenedTyped DEF Opened, BootInv, OpenedInv
<1>2. \A j \in Opened : j \in {"ingress", "state", "mismatch", "submission"}
  BY <1>1, OpeningOrder
<1>3. Sound(cfg)
  BY DEF BootInv
<1>4. DOMAIN CheckedJournals = 1 .. 4 /\ CheckedJournals[2] = "ingress"
      /\ CheckedJournals[3] = "state" /\ CheckedJournals[4] = "mismatch"
  BY DEF CheckedJournals
<1>5. ~ Same("ingress", "state", cfg) /\ ~ Same("ingress", "mismatch", cfg)
      /\ ~ Same("state", "mismatch", cfg)
  BY <1>3, <1>4 DEF Sound
<1>. QED
  BY <1>1, <1>2, <1>5, OpeningOrder DEF Own, Same

LEMMA WriteKeepsFiles ==
  ASSUME BootInv, FilesInv, NEW j \in JournalFields, WriteRecord(j)
  PROVE  FilesInv'
<1> DEFINE p == cfg.path[j]
<1>1. /\ step = "running" /\ j \in Opened /\ p \in Paths
      /\ written' = [written EXCEPT ![j] = @ + 1] /\ offset' = [offset EXCEPT ![j] = @ + 1]
      /\ written[j] + 1 \in 1 .. MaxRecords /\ offset[j] \in Nat
      /\ \A q \in Paths \ {p} : file'[q] = file[q]
      /\ offset[j] <= Len(file[p]) =>
           /\ Len(file'[p]) = IF offset[j] = Len(file[p]) THEN Len(file[p]) + 1 ELSE Len(file[p])
           /\ \A k \in 1 .. Len(file'[p]) :
                file'[p][k] = IF k = offset[j] + 1 THEN [of |-> j, number |-> written[j] + 1]
                              ELSE file[p][k]
      /\ UNCHANGED <<cfg, step, error, signer, opened, posted>>
  BY WriteRecordEffect
<1>2. SUFFICES ASSUME NEW i \in JournalFields, Own(i)
               PROVE  /\ offset'[i] = written'[i] /\ Len(file'[cfg.path[i]]) = written'[i]
                      /\ \A k \in 1 .. written'[i] : file'[cfg.path[i]][k] = [of |-> i, number |-> k]
  BY <1>1 DEF FilesInv, Own, Opened, Same
<1>3. /\ offset[i] = written[i] /\ Len(file[cfg.path[i]]) = written[i]
      /\ \A k \in 1 .. written[i] : file[cfg.path[i]][k] = [of |-> i, number |-> k]
  BY <1>1, <1>2 DEF FilesInv
<1>4. written \in [JournalFields -> 0 .. MaxRecords] /\ offset \in [JournalFields -> Nat] /\ MaxRecords \in Nat
  BY BootAssumption DEF BootInv, TypeOK
<1>5. CASE i = j
  <2>1. /\ written'[j] = written[j] + 1 /\ offset'[j] = written[j] + 1
        /\ Len(file'[p]) = written[j] + 1 /\ written[j] \in Nat
    BY <1>1, <1>3, <1>4, <1>5
  <2>2. \A k \in 1 .. written[j] + 1 : file'[p][k] = [of |-> j, number |-> k]
    <3>0. offset[j] = written[j] /\ offset[j] <= Len(file[p])
      BY <1>3, <1>5, <2>1
    <3> TAKE k \in 1 .. written[j] + 1
    <3>1. file'[p][k] = IF k = written[j] + 1 THEN [of |-> j, number |-> written[j] + 1]
                        ELSE file[p][k]
      BY <1>1, <2>1, <3>0
    <3>2. k # written[j] + 1 => file[p][k] = [of |-> j, number |-> k]
      BY <1>3, <1>5, <2>1
    <3>. QED
      BY <3>1, <3>2
  <2>. QED
    BY <1>5, <2>1, <2>2
<1>6. CASE i # j
  <2>1. cfg.path[j] # cfg.path[i] /\ cfg.path[i] \in Paths
    BY <1>1, <1>2, <1>6, OwnPathsDiffer DEF Own
  <2>2. file'[cfg.path[i]] = file[cfg.path[i]] /\ written'[i] = written[i] /\ offset'[i] = offset[i]
    BY <1>1, <1>4, <1>6, <2>1
  <2>. QED
    BY <1>3, <2>2
<1>. QED
  BY <1>5, <1>6

LEMMA FilesInductive == Spec => []FilesInv
<1>1. Init => FilesInv
  BY DEF Init, FilesInv
<1>2. BootInv /\ FilesInv /\ [Next]_vars => FilesInv'
  <2> SUFFICES ASSUME BootInv, FilesInv, [Next]_vars PROVE FilesInv'
    OBVIOUS
  <2>1. CASE /\ step # "running" /\ step' # "running"
             /\ UNCHANGED <<offset, file, written>>
    BY <2>1 DEF FilesInv
  <2>2. CASE OpenJournal
    <3>1. PICK p \in Paths : offset' \in {[offset EXCEPT ![j] = Len(file[p])] : j \in JournalFields}
      <4>1. Len(opened) + 1 \in 1 .. 4 /\ Opening[Len(opened) + 1] \in JournalFields
        BY <2>2, OpenedTyped, OpeningOrder DEF OpenJournal
      <4>2. cfg.path \in [JournalFields -> Paths \cup {NoPath}]
        BY DEF BootInv, TypeOK, Config
      <4>. QED
        BY <2>2, <4>1, <4>2 DEF OpenJournal
    <3>2. step = "wiring" /\ step' = "wiring" /\ UNCHANGED <<file, written>>
      BY <2>2 DEF OpenJournal
    <3>3. file[p] = <<>> /\ \A j \in JournalFields : offset[j] = 0 /\ written[j] = 0
      BY <3>2 DEF FilesInv
    <3>4. \A j \in JournalFields : offset'[j] = 0
      BY <3>1, <3>3 DEF BootInv, TypeOK
    <3>. QED
      BY <3>2, <3>3, <3>4 DEF FilesInv
  <2>3. CASE BuildRelay
    <3>1. /\ step = "wiring" /\ step' = "running" /\ BootInv'
          /\ UNCHANGED <<cfg, opened, offset, file, written>>
      <4>1. BootInv'
        BY <2>3, OpeningOrder DEF BuildRelay, BootInv, TypeOK, OpenedInv
      <4>. QED
        BY <2>3, <4>1 DEF BuildRelay
    <3>2. \A j \in Opened' : cfg'.path[j] \in Paths
      BY <3>1, OpenedTyped DEF Opened, BootInv, OpenedInv
    <3>3. \A j \in JournalFields : Own(j)' => cfg'.path[j] \in Paths
      BY <3>2 DEF Own
    <3>. QED
      BY <3>1, <3>3 DEF FilesInv
  <2>4. CASE \E j \in JournalFields : WriteRecord(j)
    BY <2>4, WriteKeepsFiles
  <2>5. CASE Post \/ UNCHANGED vars
    BY <2>5 DEF Post, vars, FilesInv, Own, Opened, Same
  <2>6. CASE Validate \/ BuildSigner \/ KmsFails \/ WireFails
    <3>1. /\ step # "running" /\ step' # "running"
          /\ UNCHANGED <<offset, file, written>>
      BY <2>6 DEF Validate, BuildSigner, KmsFails, WireFails, Stop
    <3>. QED
      BY <2>1, <3>1
  <2>. QED
    BY <2>2, <2>3, <2>4, <2>5, <2>6 DEF Next
<1>. QED
  BY <1>1, <1>2, BootInductive, PTL DEF Spec

\* A journal at a path of its own finds what it wrote where it wrote it; validate leaves
\* only the submission journal's path to be shared.
THEOREM OwnJournalsKept == Spec => []KeptUnlessSharedWithSubmission
<1>1. BootInv /\ FilesInv => KeptUnlessSharedWithSubmission
  <2> SUFFICES ASSUME BootInv, FilesInv, NEW j \in Opened \ {"submission"},
                      step = "running", ~ Same(j, "submission", cfg)
               PROVE  Kept(j)
    BY DEF KeptUnlessSharedWithSubmission
  <2>1. j \in JournalFields /\ Own(j)
    BY OwnPathsDiffer DEF Own
  <2>2. /\ offset[j] = written[j] /\ written[j] \in Nat
        /\ \A k \in 1 .. written[j] : file[cfg.path[j]][k] = [of |-> j, number |-> k]
    BY <2>1 DEF FilesInv, BootInv, TypeOK
  <2>3. offset[j] - written[j] = 0
    BY <2>2
  <2>4. \A k \in 1 .. written[j] : 0 + k = k
    BY <2>2
  <2>. QED
    BY <2>2, <2>3, <2>4 DEF Kept
<1>. QED
  BY <1>1, BootInductive, FilesInductive, PTL
=============================================================================
