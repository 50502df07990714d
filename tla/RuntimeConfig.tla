--------------------------- MODULE RuntimeConfig ----------------------------
(***************************************************************************)
(* The configuration: the two line-by-line readers of the YAML file        *)
(* (LoadSinkRuntimeConfig in src/main.cpp, LoadRuntimeConfig in            *)
(* src/collector/collector_libbpf.cpp), and the part of Collector::Start   *)
(* that writes what was read into the maps of the BPF object.              *)
(*                                                                         *)
(* The readers know nothing of indentation: a line that ends in a colon    *)
(* opens a section or closes it, anything else belongs to the section that *)
(* is open.  Every map may be missing from the object and every update may *)
(* fail; the engine starts all the same and says so in its startup report. *)
(* The programs look at the toggles only: allowlists and filter flags are  *)
(* written for them, but is_*_allowed answer yes for now.                  *)
(*                                                                         *)
(* A line is what is left of it after comments and blanks are removed:     *)
(* a header, a key with a value, a key with an inline list, an item of a   *)
(* block list.  Its depth, which the readers do not see, is there to state *)
(* what the file means.                                                    *)
(***************************************************************************)
EXTENDS Integers, Sequences, SequencesExt, FiniteSetsExt

CONSTANTS
  Lines,        \* the lines a file is made of, see Line
  MaxLines,     \* bound on the length of a file
  Kinds         \* event kinds of a domain that has one toggle per kind

Line == [shape : {"header", "pair", "list", "item"}, key : STRING, text : STRING,
         nums : SUBSET Nat, depth : {0, 1}]

ASSUME LinesAssumption == /\ \A l \in Lines : l \in Line
                          /\ MaxLines \in Nat

Domains == {"process", "file", "syscall", "network_socket"}
Probes == {"openat", "unlinkat", "renameat2"}
Allowlists == {"pid_allowlist", "uid_allowlist", "syscall_allowlist", "port_allowlist"}

\* What LoadRuntimeConfig fills in, with the section it is in.
Defaults ==
  [section |-> "none",
   domains |-> [d \in Domains |-> d # "network_socket"],
   probes  |-> [p \in Probes |-> TRUE],
   allow   |-> [a \in Allowlists |-> {}]]

\* What LoadSinkRuntimeConfig fills in.
SinkDefaults == [in_sink |-> FALSE, path |-> "default", max_file_size_bytes |-> "default"]

-----------------------------------------------------------------------------
(* The readers.                                                            *)

IsBool(text) == text \in {"true", "false"}

\* Fault: a header of another section leaves the open one open.
HeaderLeavesOpen(cfg, key) ==
  [cfg EXCEPT !.section = IF key \in {"file_probes", "domains", "network_filters"} THEN key ELSE @]

Header(cfg, key) ==
  [cfg EXCEPT !.section = IF key \in {"file_probes", "domains", "network_filters"} THEN key
                          ELSE "none"]

\* One turn of the loop of LoadRuntimeConfig.  Three of the allowlists are taken
\* in any section.  A value that is no Boolean changes nothing.
ReadLine(cfg, l) ==
  IF l.shape = "header" THEN Header(cfg, l.key)
  ELSE IF l.shape = "list" /\ (\/ l.key \in Allowlists \ {"port_allowlist"}
                               \/ l.key = "port_allowlist" /\ cfg.section = "network_filters")
  THEN [cfg EXCEPT !.allow[l.key] = @ \cup l.nums]
  ELSE IF l.shape = "pair" /\ IsBool(l.text) /\ cfg.section = "file_probes" /\ l.key \in Probes
  THEN [cfg EXCEPT !.probes[l.key] = (l.text = "true")]
  ELSE IF l.shape = "pair" /\ IsBool(l.text) /\ cfg.section = "domains" /\ l.key \in Domains
  THEN [cfg EXCEPT !.domains[l.key] = (l.text = "true")]
  ELSE cfg

LoadRuntimeConfig(file) == FoldLeft(ReadLine, Defaults, file)

\* One turn of the loop of LoadSinkRuntimeConfig; a limit that is no number ("bad")
\* is ignored.
ReadSinkLine(s, l) ==
  IF l.shape = "header" THEN [s EXCEPT !.in_sink = (l.key = "sink")]
  ELSE IF s.in_sink /\ l.shape = "pair" /\ l.key = "path" THEN [s EXCEPT !.path = l.text]
  ELSE IF s.in_sink /\ l.shape = "pair" /\ l.key = "max_file_size_bytes"
  THEN [s EXCEPT !.max_file_size_bytes = IF l.text = "bad" THEN @ ELSE l.text]
  ELSE s

LoadSinkRuntimeConfig(file) == FoldLeft(ReadSinkLine, SinkDefaults, file)

-----------------------------------------------------------------------------
(* The program.                                                            *)

VARIABLES
  file,       \* the lines of the open file, <<>> after it is closed
  exists,     \* the file can be opened
  step,       \* where the program is
  sink,       \* the result of LoadSinkRuntimeConfig
  cfg,        \* runtime_cfg
  maps,       \* the maps, as what the programs read in them
  degraded    \* startup_report_.degraded

vars == <<file, exists, step, sink, cfg, maps, degraded>>

\* The maps in the order in which Start writes them, and the flag maps of filters.
Toggles == <<"process", "syscall", "file", "network">>
Lists == <<"pid_allowlist", "uid_allowlist", "syscall_allowlist", "port_allowlist">>
Filters == <<"pid_allowlist", "uid_allowlist", "port_allowlist">>

\* A map starts out empty: array maps hold 0, which reads as off.  No program is
\* attached before all the maps have been written.
Init ==
  /\ exists \in BOOLEAN
  /\ file \in IF exists THEN UNION {[1 .. n -> Lines] : n \in 0 .. MaxLines} ELSE {<<>>}
  /\ step = <<"sink", 1>>
  /\ sink = SinkDefaults /\ cfg = Defaults
  /\ maps = [on |-> [i \in DOMAIN Toggles |-> {}],
             allow |-> [a \in Allowlists |-> {}],
             filter |-> [i \in DOMAIN Filters |-> FALSE],
             suppress |-> FALSE]
  /\ degraded = FALSE

LoadSink ==
  /\ step = <<"sink", 1>>
  /\ sink' = LoadSinkRuntimeConfig(file)
  /\ step' = <<"load", 1>>
  /\ UNCHANGED <<file, exists, cfg, maps, degraded>>

\* Start; without a file the defaults hold.
Load ==
  /\ step = <<"load", 1>>
  /\ cfg' = LoadRuntimeConfig(file)
  /\ degraded' = ~exists
  /\ step' = <<"loaded", 1>>
  /\ UNCHANGED <<file, exists, sink, maps>>

Close ==
  /\ step = <<"loaded", 1>>
  /\ file' = <<>>
  /\ step' = <<"toggle", 1>>
  /\ UNCHANGED <<exists, sink, cfg, maps, degraded>>

\* The kinds whose programs look into toggle map i.
Gated(i) == IF Toggles[i] = "file" THEN Probes ELSE Kinds

\* The kinds that are to be on in toggle map i.
Effective(i) ==
  IF Toggles[i] = "file" THEN {p \in Probes : cfg.domains["file"] /\ cfg.probes[p]}
  ELSE IF cfg.domains[IF Toggles[i] = "network" THEN "network_socket" ELSE Toggles[i]]
  THEN Kinds ELSE {}

\* Fault: an update that fails is passed over.
ApplyTogglesSilently ==
  /\ step[1] = "toggle"
  /\ \E set \in (SUBSET Effective(step[2])) \cup {Gated(step[2])} :
       maps' = [maps EXCEPT !.on[step[2]] = set]
  /\ step' = IF step[2] < Len(Toggles) THEN <<"toggle", step[2] + 1>> ELSE <<"list", 1>>
  /\ UNCHANGED <<file, exists, sink, cfg, degraded>>

\* ApplyProcessProbeConfig, SetAllowlistEnabled for syscall_probe_enabled,
\* ApplyFileProbeConfig and ApplyNetworkProbeConfig.  An update that fails leaves its
\* toggle off.  An object without the map has programs that ask no toggle: they are
\* all on, whatever is configured.
ApplyToggles ==
  /\ step[1] = "toggle"
  /\ \E set \in (SUBSET Effective(step[2])) \cup {Gated(step[2])}, ok \in BOOLEAN :
       /\ ok => set = Effective(step[2])
       /\ maps' = [maps EXCEPT !.on[step[2]] = set]
       /\ degraded' = (degraded \/ ~ok)
  /\ step' = IF step[2] < Len(Toggles) THEN <<"toggle", step[2] + 1>> ELSE <<"list", 1>>
  /\ UNCHANGED <<file, exists, sink, cfg>>

\* The allowlist that is to be in list map i.
EffectiveList(i) ==
  IF Lists[i] = "syscall_allowlist" /\ ~cfg.domains["syscall"] THEN {} ELSE cfg.allow[Lists[i]]

\* ApplyU32AllowlistConfig and ApplySyscallAllowlistConfig.  A missing map is
\* reported, and so is a list of which nothing could be written; a list that was
\* written in part is not.
ApplyLists ==
  /\ step[1] = "list"
  /\ \E set \in SUBSET EffectiveList(step[2]), found \in BOOLEAN :
       /\ ~found => set = {}
       /\ maps' = [maps EXCEPT !.allow[Lists[step[2]]] = set]
       /\ degraded' = (degraded \/ ~found \/ (EffectiveList(step[2]) # {} /\ set = {}))
  /\ step' = IF step[2] < Len(Lists) THEN <<"list", step[2] + 1>> ELSE <<"filter", 1>>
  /\ UNCHANGED <<file, exists, sink, cfg>>

\* SetAllowlistEnabled for the three filters.
ApplyFilters ==
  /\ step[1] = "filter"
  /\ \E ok \in BOOLEAN :
       /\ maps' = [maps EXCEPT !.filter[step[2]] = ok /\ cfg.allow[Filters[step[2]]] # {}]
       /\ degraded' = (degraded \/ ~ok)
  /\ step' = IF step[2] < Len(Filters) THEN <<"filter", step[2] + 1>> ELSE <<"suppress", 1>>
  /\ UNCHANGED <<file, exists, sink, cfg>>

\* The engine's own tgid goes into suppress_tgid.
SuppressSelf ==
  /\ step[1] = "suppress"
  /\ \E ok \in BOOLEAN :
       /\ maps' = [maps EXCEPT !.suppress = ok]
       /\ degraded' = (degraded \/ ~ok)
  /\ step' = <<"applied", 1>>
  /\ UNCHANGED <<file, exists, sink, cfg>>

Next ==
  \/ LoadSink \/ Load \/ Close
  \/ ApplyToggles \/ ApplyLists \/ ApplyFilters \/ SuppressSelf

Spec == Init /\ [][Next]_vars

-----------------------------------------------------------------------------
(* What a file means: YAML in block style, settings one level below their  *)
(* section.                                                                *)

\* The section line i belongs to, by indentation.
Owner(i) ==
  LET above == {j \in 1 .. i - 1 : file[j].depth = 0}
  IN  IF above # {} /\ file[Max(above)].shape = "header" THEN file[Max(above)].key ELSE "none"

\* The section a list belongs to, by the comment of LoadRuntimeConfig.
Home(a) == IF a = "port_allowlist" THEN "network_filters" ELSE "filters"

\* At the top level there are headers, and below each of them settings and inline
\* lists.  There are no lists of items, and the lists that the reader takes from any
\* section are in theirs.
BlockStyle ==
  \A i \in DOMAIN file :
    /\ file[i].depth = 0 => file[i].shape = "header"
    /\ file[i].depth = 1 => file[i].shape \in {"pair", "list"} /\ Owner(i) # "none"
    /\ file[i].shape = "list" /\ file[i].key \in Allowlists \ {"port_allowlist"}
         => Owner(i) = Home(file[i].key)

\* The value of a setting: its last usable one, or the default.
Setting(section, key, usable, default) ==
  LET at == {i \in DOMAIN file : /\ file[i].shape = "pair" /\ file[i].key = key
                                 /\ Owner(i) = section /\ file[i].text \in usable}
  IN  IF at = {} THEN default ELSE file[Max(at)].text

Flag(section, key, default) ==
  Setting(section, key, {"true", "false"}, IF default THEN "true" ELSE "false") = "true"

\* The lines that say what is in a list.
Listed(a) == {i \in DOMAIN file : file[i].shape = "list" /\ file[i].key = a /\ Owner(i) = Home(a)}

-----------------------------------------------------------------------------
(* Properties.                                                             *)

Loaded == step = <<"loaded", 1>>

\* For every file in block style with inline lists, the readers that ignore the
\* indentation find what it says: the toggles, the lists, and the path and the limit
\* of the sink.
ParseMeans ==
  Loaded /\ BlockStyle =>
    /\ \A d \in Domains : cfg.domains[d] = Flag("domains", d, Defaults.domains[d])
    /\ \A p \in Probes : cfg.probes[p] = Flag("file_probes", p, TRUE)
    /\ \A a \in Allowlists : cfg.allow[a] = UNION {file[i].nums : i \in Listed(a)}
    /\ sink.path = Setting("sink", "path", {l.text : l \in Lines}, "default")
    /\ sink.max_file_size_bytes =
         Setting("sink", "max_file_size_bytes", {l.text : l \in Lines} \ {"bad"}, "default")

\* Whatever the file looks like, a domain leaves its default only because of a
\* line that follows the header of the section, with no other header between.
OnlyInSection ==
  Loaded => \A d \in Domains : cfg.domains[d] # Defaults.domains[d] =>
    \E h, i \in DOMAIN file :
      /\ file[h].shape = "header" /\ file[h].key = "domains" /\ h < i
      /\ \A j \in h + 1 .. i : file[j].shape # "header"
      /\ file[i].key = d /\ file[i].text = IF cfg.domains[d] THEN "true" ELSE "false"

\* docs/verification-checklist.md, degraded-mode honesty: a report that is not
\* degraded means that a file was read, that exactly the configured probes are on,
\* that every configured filter is active and has an entry, and that the programs
\* know whom to leave out.
Honest ==
  step[1] = "applied" /\ ~degraded =>
    /\ exists
    /\ \A i \in DOMAIN Toggles : maps.on[i] = Effective(i)
    /\ \A i \in DOMAIN Lists : (maps.allow[Lists[i]] = {}) <=> (EffectiveList(i) = {})
    /\ \A i \in DOMAIN Filters : maps.filter[i] <=> cfg.allow[Filters[i]] # {}
    /\ maps.suppress
=============================================================================
