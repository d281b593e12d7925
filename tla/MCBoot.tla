------------------------------- MODULE MCBoot ---------------------------------
(* Every relay section and every single collision or gap among the journal      *)
(* paths, around a configuration that is otherwise valid; and every other       *)
(* single mistake, around the default relay section.                            *)
EXTENDS Boot

DefaultPaths == [j \in JournalFields |->
  CASE j = "file" -> "f" [] j = "ingress" -> "i" [] j = "state" -> "s"
    [] j = "mismatch" -> "m" [] j = "submission" -> "r"]

Valid ==
  [fallbackRpc |-> TRUE, gethWsUrl |-> TRUE, gethHttpUrl |-> TRUE, archiveRpc |-> FALSE,
   watchedAddresses |-> TRUE, tokensDiffer |-> TRUE, busCapacity |-> 1,
   pools |-> <<1, 2>>, profile |-> "Dev", keyBackend |-> "Disabled", auditKey |-> FALSE,
   liveSend |-> FALSE, allowNonLocalhost |-> FALSE, relays |-> <<>>,
   cacheCapacity |-> 1, prefetch |-> FALSE, path |-> DefaultPaths]

MCPaths == {"f", "i", "s", "m", "r"}

PathVariants ==
  {[DefaultPaths EXCEPT ![j] = p] : j \in JournalFields, p \in MCPaths \cup {NoPath}}

RelayVariants ==
  {[Valid EXCEPT !.profile = pr, !.keyBackend = kb, !.auditKey = ak, !.liveSend = ls,
                 !.allowNonLocalhost = al, !.relays = rs] :
     pr \in {"Shadow", "Production"}, kb \in {"Disabled", "HsmKms"}, ak \in BOOLEAN,
     ls \in BOOLEAN, al \in BOOLEAN,
     rs \in {<<>>, <<"localhost">>, <<"remote">>, <<"garbage">>, <<"blank">>,
             <<"localhost", "remote">>}}

Mistakes ==
  {[Valid EXCEPT !.fallbackRpc = FALSE], [Valid EXCEPT !.gethWsUrl = FALSE],
   [Valid EXCEPT !.gethHttpUrl = FALSE], [Valid EXCEPT !.busCapacity = 0],
   [Valid EXCEPT !.watchedAddresses = FALSE], [Valid EXCEPT !.tokensDiffer = FALSE],
   [Valid EXCEPT !.pools = <<>>], [Valid EXCEPT !.pools = <<1, 1>>],
   [Valid EXCEPT !.cacheCapacity = 0], [Valid EXCEPT !.prefetch = TRUE]}

MCConfigs == RelayVariants \cup Mistakes \cup {[Valid EXCEPT !.path = v] : v \in PathVariants}
SharedPaths == {[Valid EXCEPT !.path = v] : v \in PathVariants}
=============================================================================
